---- MODULE Spec2Model ----
(***************************************************************************)
(* A model of github.com/jackc/pgxrecord: the Table descriptor with its    *)
(* lazily computed derived state, the Record with its attribute vector,    *)
(* assigned bitmap and original-attributes snapshot, the SQL that          *)
(* Record.Save builds, and the row-count policy of the query helpers.      *)
(*                                                                         *)
(* Conventions.                                                            *)
(*  - A Go string that the code builds with strings.Builder is a sequence  *)
(*    of pieces, one piece per WriteString/WriteByte call (a cached string *)
(*    written as a whole contributes its own pieces).  Text(b) is the      *)
(*    string itself.                                                       *)
(*  - A Go slice is a TLA+ sequence: Go index i is index i+1 here.         *)
(*  - A Go value of type any is an integer of Values; 0 is nil.            *)
(*  - A slice that may be nil is a record [isNil, elems].                  *)
(*  - An error is the name of the sentinel errors.Is finds in it ("nil"    *)
(*    when there is none); fmt.Errorf("...%w") keeps that name.            *)
(***************************************************************************)
EXTENDS Integers, Sequences, FiniteSets, TLC

VARIABLES
  table,    \* the Table every Record of the model is bound to
  records,  \* the Records the caller holds, by the caller's name for them
  made,     \* per Record: which constructor made it, whether Save was called
  last,     \* the most recent call: its inputs, what it sent, what it returned
  inflight  \* per concurrent caller: the call it is inside and where it stands

vars == <<table, records, made, last, inflight>>

(***************************************************************************)
(* Bounds                                                                  *)
(***************************************************************************)
MaxVal == 1
MaxRows == 2
MaxSaves == 1

Values == 0..MaxVal

RecIds == {"r1"}

(***************************************************************************)
(* Strings                                                                 *)
(***************************************************************************)
RECURSIVE Text(_)
Text(b) == IF b = <<>> THEN "" ELSE Head(b) \o Text(Tail(b))

FormatInt(n) == ToString(n)

\* The characters of the identifiers the model uses.
Chars(s) ==
  CASE s = "widgets" -> <<"w", "i", "d", "g", "e", "t", "s">>
    [] s = "id"      -> <<"i", "d">>
    [] s = "name"    -> <<"n", "a", "m", "e">>
    [] s = "public"  -> <<"p", "u", "b", "l", "i", "c">>
    [] s = "pairs"   -> <<"p", "a", "i", "r", "s">>
    [] s = "a"       -> <<"a">>
    [] s = "b"       -> <<"b">>
    [] s = "log"     -> <<"l", "o", "g">>
    [] s = "m\"q"    -> <<"m", "\"", "q">>
    [] s = "kv"      -> <<"k", "v">>
    [] s = "v"       -> <<"v">>
    [] s = "trio"    -> <<"t", "r", "i", "o">>
    [] s = "x"       -> <<"x">>
    [] s = "y"       -> <<"y">>
    [] s = "z"       -> <<"z">>
    [] s = ""        -> <<>>
    [] s = "x_1"     -> <<"x", "_", "1">>
    [] s = "Name"    -> <<"N", "a", "m", "e">>
    [] s = "a b"     -> <<"a", " ", "b">>
    [] s = "a.b"     -> <<"a", ".", "b">>

\* strings.ReplaceAll(s, `"`, `""`)
RECURSIVE ReplaceQuotes(_)
ReplaceQuotes(cs) ==
  IF cs = <<>> THEN ""
  ELSE (IF Head(cs) = "\"" THEN "\"\"" ELSE Head(cs)) \o ReplaceQuotes(Tail(cs))

RECURSIVE JoinParts(_)
JoinParts(parts) ==
  IF Len(parts) = 0 THEN ""
  ELSE IF Len(parts) = 1 THEN parts[1]
  ELSE parts[1] \o "." \o JoinParts(Tail(parts))

\* pgx.Identifier.Sanitize: every part double-quoted with embedded quotes
\* doubled, the parts joined by ".".
Sanitize(ident) ==
  JoinParts([i \in 1..Len(ident) |-> "\"" \o ReplaceQuotes(Chars(ident[i])) \o "\""])

(***************************************************************************)
(* Tables the model is run on                                              *)
(***************************************************************************)
Col(n, pk) == [Name |-> n, quotedName |-> "", PrimaryKey |-> pk]

\* Name, Columns and which hooks are configured.
TableShapes ==
  { [Name |-> <<"widgets">>,
     Columns |-> <<Col("id", TRUE), Col("name", FALSE)>>,
     Normalize |-> TRUE, Validate |-> TRUE],
    [Name |-> <<"public", "pairs">>,
     Columns |-> <<Col("a", TRUE), Col("b", TRUE)>>,
     Normalize |-> FALSE, Validate |-> FALSE],
    [Name |-> <<"log">>,
     Columns |-> <<Col("m\"q", FALSE), Col("id", TRUE)>>,
     Normalize |-> FALSE, Validate |-> TRUE],
    [Name |-> <<"kv">>,
     Columns |-> <<Col("v", FALSE)>>,
     Normalize |-> TRUE, Validate |-> FALSE] }

NilText == <<>>
EmptyMap == [n \in {} |-> 0]

NewTable(shape) ==
  [Name |-> shape.Name,
   Columns |-> shape.Columns,
   Normalize |-> shape.Normalize,
   Validate |-> shape.Validate,
   finalized |-> FALSE,
   quotedQualifiedName |-> "",
   quotedName |-> "",
   selectQuery |-> NilText,
   selectByPKQuery |-> NilText,
   pkWhereClause |-> NilText,
   returningClause |-> NilText,
   pkIndexes |-> <<>>,
   nameToColumnIndex |-> EmptyMap,
   validationErrors |-> "nil",
   finalizeCalls |-> 0,
   finalizePanic |-> FALSE]

(***************************************************************************)
(* Table.LoadAllColumns.  The catalog answers the query for the table OID  *)
(* with "ok", "ErrNoRows" or "driver", and the query for the columns with  *)
(* an error or with a list of columns.  A Name of neither one nor two      *)
(* parts sends no query and leaves rows nil, and CollectOneRow panics on   *)
(* it.  The call waits for each answer, so its steps are with the actions, *)
(* after Init.                                                             *)
(***************************************************************************)
OIDAnswers == {"ok", "ErrNoRows", "driver"}

ColumnsAnswer(err, columns) == [err |-> err, columns |-> columns]

ColumnsAnswers ==
  {ColumnsAnswer(TRUE, <<>>)} \cup {ColumnsAnswer(FALSE, s.Columns) : s \in TableShapes}

\* The statements the block that finds the OID sends.
oidQuery(t) ==
  IF Len(t.Name) = 1
  THEN <<[sql |-> <<"select c.oid from pg_class c where c.relname=$1">>,
          args |-> <<t.Name[1]>>]>>
  ELSE IF Len(t.Name) = 2
  THEN <<[sql |-> <<"select c.oid from pg_class c join pg_namespace n where c.relname=$1 and n.nspname=$2">>,
          args |-> <<t.Name[2], t.Name[1]>>]>>
  ELSE <<>>

columnsQuery == [sql |-> <<"select attname, atttypid, attnotnull, isprimary from pg_attribute where attrelid=$1">>,
                 args |-> <<"tableOID">>]

(***************************************************************************)
(* Table.finalize and the builders it calls                                *)
(***************************************************************************)
\* One iteration of the loop of buildSelectQuery.
buildSelectQueryTerm(t, i, b) ==
  (IF i > 1 THEN Append(b, ", ") ELSE b)
    \o <<t.quotedName, ".", t.Columns[i].quotedName>>

RECURSIVE buildSelectQueryLoop(_, _, _)
buildSelectQueryLoop(t, i, b) ==
  IF i > Len(t.Columns) THEN b
  ELSE buildSelectQueryLoop(t, i + 1, buildSelectQueryTerm(t, i, b))

buildSelectQuery(t) ==
  buildSelectQueryLoop(t, 1, <<"select ">>) \o <<" from ", t.quotedQualifiedName>>

\* The loop of buildPKWhereClause as it would be if it numbered a placeholder
\* by the index of its column.
RECURSIVE buildPKWhereClauseLoop_byColumnIndex(_, _, _)
buildPKWhereClauseLoop_byColumnIndex(t, i, b) ==
  IF i > Len(t.pkIndexes) THEN b
  ELSE buildPKWhereClauseLoop_byColumnIndex(t, i + 1,
         (IF i > 1 THEN Append(b, " and ") ELSE b)
           \o <<t.Columns[t.pkIndexes[i]].quotedName, " = $", FormatInt(t.pkIndexes[i])>>)

\* One iteration of the loop of buildPKWhereClause.
buildPKWhereClauseTerm(t, i, b) ==
  (IF i > 1 THEN Append(b, " and ") ELSE b)
    \o <<t.Columns[t.pkIndexes[i]].quotedName, " = $", FormatInt(i)>>

RECURSIVE buildPKWhereClauseLoop(_, _, _)
buildPKWhereClauseLoop(t, i, b) ==
  IF i > Len(t.pkIndexes) THEN b
  ELSE buildPKWhereClauseLoop(t, i + 1, buildPKWhereClauseTerm(t, i, b))

buildPKWhereClause(t) == buildPKWhereClauseLoop(t, 1, <<"where ">>)

RECURSIVE buildReturningClauseLoop(_, _, _)
buildReturningClauseLoop(t, i, b) ==
  IF i > Len(t.Columns) THEN b
  ELSE buildReturningClauseLoop(t, i + 1,
         (IF i > 1 THEN Append(b, ", ") ELSE b) \o <<t.Columns[i].quotedName>>)

buildReturningClause(t) == buildReturningClauseLoop(t, 1, <<"returning ">>)

\* m[columns[i].Name] = i for i ascending: the last column of a name wins.
buildNameToColumnIndex(columns) ==
  [n \in {columns[i].Name : i \in 1..Len(columns)} |->
     CHOOSE i \in 1..Len(columns) :
       /\ columns[i].Name = n
       /\ \A j \in 1..Len(columns) : columns[j].Name = n => j <= i]

\* The loop of finalize: quote every column name, collect the primary keys.
RECURSIVE finalizeLoop(_, _)
finalizeLoop(t, i) ==
  IF i > Len(t.Columns) THEN t
  ELSE finalizeLoop(
         [t EXCEPT !.Columns[i].quotedName = Sanitize(<<t.Columns[i].Name>>),
                   !.pkIndexes = IF t.Columns[i].PrimaryKey
                                 THEN Append(t.pkIndexes, i)
                                 ELSE t.pkIndexes],
         i + 1)

\* The assignments of finalize, one operator per statement, in the order of
\* the code; each takes the Table as the statements before it left it.
finalizeNames(t) ==
  [t EXCEPT !.finalizeCalls = @ + 1,
            !.finalized = TRUE,
            !.quotedQualifiedName = Sanitize(t.Name),
            !.quotedName = Sanitize(<<t.Name[Len(t.Name)]>>)]

finalizePKWhereClause(t) == [t EXCEPT !.pkWhereClause = buildPKWhereClause(t)]

finalizeSelectQuery(t) == [t EXCEPT !.selectQuery = buildSelectQuery(t)]

finalizeSelectByPKQuery(t) ==
  [t EXCEPT !.selectByPKQuery = t.selectQuery \o <<" ">> \o t.pkWhereClause]

finalizeReturningClause(t) == [t EXCEPT !.returningClause = buildReturningClause(t)]

finalizeNameToColumnIndex(t) ==
  [t EXCEPT !.nameToColumnIndex = buildNameToColumnIndex(t.Columns)]

\* finalizeCalls counts the runs of the body of finalize and finalizePanic
\* records its panic("BUG: cannot call after table finalized"); neither is a
\* field of the Go struct.
finalize(t) ==
  IF t.finalized
  THEN [t EXCEPT !.finalizePanic = TRUE]
  ELSE finalizeNameToColumnIndex(
         finalizeReturningClause(
           finalizeSelectByPKQuery(
             finalizeSelectQuery(
               finalizePKWhereClause(
                 finalizeLoop(finalizeNames(t), 1))))))

\* ensureFinalized as it would be without the test of t.finalized.
ensureFinalized_always(t) == finalize(t)

\* if !t.finalized { t.finalize() }
ensureFinalized(t) == IF ~t.finalized THEN finalize(t) ELSE t

(***************************************************************************)
(* Records                                                                 *)
(***************************************************************************)
NilSlice == [isNil |-> TRUE, elems |-> <<>>]
Slice(elems) == [isNil |-> FALSE, elems |-> elems]

\* A caller's variable that holds no Record yet.
NoRecord ==
  [live |-> FALSE, originalAttributes |-> NilSlice, attributes |-> <<>>, assigned |-> <<>>]

\* The Record literal of NewRecord: make([]any, n), make([]bool, n), and no
\* originalAttributes.
newRecordLiteral(t) ==
  [table |-> t,
   record |-> [live |-> TRUE,
               originalAttributes |-> NilSlice,
               attributes |-> [i \in 1..Len(t.Columns) |-> 0],
               assigned |-> [i \in 1..Len(t.Columns) |-> FALSE]]]

NewRecord(t) == newRecordLiteral(ensureFinalized(t))

\* SelectQuery as it would be if it built the text from Columns on every call.
selectQueryField_rebuilds(t) == [table |-> t, ret |-> buildSelectQuery(t)]

selectQueryField(t) == [table |-> t, ret |-> t.selectQuery]

SelectQuery(t) == selectQueryField(ensureFinalized(t))

\* rows.Scan(dest...) into the attribute slots: scanErrAt = 0 is a scan that
\* succeeds; scanErrAt = k fails at destination k, after the destinations
\* before it were written.
Scan(attributes, row, scanErrAt) ==
  [i \in 1..Len(attributes) |->
     IF scanErrAt = 0 \/ i < scanErrAt THEN row[i] ELSE attributes[i]]

\* The scan of RowToRecord into the Record nr that NewRecord returned, and
\* the copy of the attributes scanned.
rowToRecordScan(nr, scanned, scanErrAt) ==
  IF scanErrAt # 0
  THEN [table |-> nr.table, record |-> NoRecord, err |-> "scan"]
  ELSE [table |-> nr.table,
        record |-> [nr.record EXCEPT !.attributes = scanned,
                                     !.originalAttributes = Slice(scanned)],
        err |-> "nil"]

rowToRecordInto(nr, row, scanErrAt) ==
  rowToRecordScan(nr, Scan(nr.record.attributes, row, scanErrAt), scanErrAt)

RowToRecord(t, row, scanErrAt) ==
  rowToRecordInto(NewRecord(ensureFinalized(t)), row, scanErrAt)

\* Set as it would be if it did not mark the column assigned.
Set_dropsAssigned(t, r, attribute, value) ==
  IF attribute \notin DOMAIN t.nameToColumnIndex
  THEN [panic |-> TRUE, record |-> r]
  ELSE [panic |-> FALSE,
        record |-> [r EXCEPT !.attributes[t.nameToColumnIndex[attribute]] = value]]

\* Set without the test of ok: the lookup of a missing key yields index 0.
Set_ignoresOk(t, r, attribute, value) ==
  LET idx == IF attribute \in DOMAIN t.nameToColumnIndex
             THEN t.nameToColumnIndex[attribute] ELSE 1
  IN  [panic |-> FALSE,
       record |-> [r EXCEPT !.attributes[idx] = value, !.assigned[idx] = TRUE]]

\* r.attributes[idx] = value; r.assigned[idx] = true.  An index past the end
\* of a slice is a run-time panic at that statement: the first assignment
\* stays when only the second one panics.
assignAt(r, idx, value) ==
  IF idx > Len(r.attributes)
  THEN [panic |-> TRUE, record |-> r]
  ELSE IF idx > Len(r.assigned)
  THEN [panic |-> TRUE, record |-> [r EXCEPT !.attributes[idx] = value]]
  ELSE [panic |-> FALSE,
        record |-> [r EXCEPT !.attributes[idx] = value, !.assigned[idx] = TRUE]]

Set(t, r, attribute, value) ==
  IF attribute \notin DOMAIN t.nameToColumnIndex
  THEN [panic |-> TRUE, record |-> r]
  ELSE assignAt(r, t.nameToColumnIndex[attribute], value)

\* return r.attributes[idx] panics as well when idx is past the end.
Get(t, r, attribute) ==
  IF attribute \notin DOMAIN t.nameToColumnIndex
  THEN [panic |-> TRUE, value |-> 0]
  ELSE IF t.nameToColumnIndex[attribute] > Len(r.attributes)
  THEN [panic |-> TRUE, value |-> 0]
  ELSE [panic |-> FALSE, value |-> r.attributes[t.nameToColumnIndex[attribute]]]

\* SetAttributes: for k, v := range attributes, in the order the range
\* yields the keys; a key that is no column is skipped.  A panic ends the
\* loop and leaves the Record as the keys before it made it.
RECURSIVE SetAttributesLoop(_, _, _, _, _)
SetAttributesLoop(t, r, attributes, order, i) ==
  IF i > Len(order) THEN [panic |-> FALSE, record |-> r]
  ELSE IF order[i] \notin DOMAIN t.nameToColumnIndex
       THEN SetAttributesLoop(t, r, attributes, order, i + 1)
       ELSE IF assignAt(r, t.nameToColumnIndex[order[i]], attributes[order[i]]).panic
       THEN assignAt(r, t.nameToColumnIndex[order[i]], attributes[order[i]])
       ELSE SetAttributesLoop(t,
              assignAt(r, t.nameToColumnIndex[order[i]], attributes[order[i]]).record,
              attributes, order, i + 1)

SetAttributes(t, r, attributes, order) == SetAttributesLoop(t, r, attributes, order, 1)

\* SetAttributesStrict: the same range; the first key that is no column
\* returns the error.
RECURSIVE SetAttributesStrictLoop(_, _, _, _, _)
SetAttributesStrictLoop(t, r, attributes, order, i) ==
  IF i > Len(order) THEN [err |-> "nil", panic |-> FALSE, record |-> r]
  ELSE IF order[i] \notin DOMAIN t.nameToColumnIndex
       THEN [err |-> "attributeNotFound", panic |-> FALSE, record |-> r]
       ELSE IF assignAt(r, t.nameToColumnIndex[order[i]], attributes[order[i]]).panic
       THEN [err |-> "nil", panic |-> TRUE,
             record |-> assignAt(r, t.nameToColumnIndex[order[i]],
                                 attributes[order[i]]).record]
       ELSE SetAttributesStrictLoop(t,
              assignAt(r, t.nameToColumnIndex[order[i]], attributes[order[i]]).record,
              attributes, order, i + 1)

SetAttributesStrict(t, r, attributes, order) ==
  SetAttributesStrictLoop(t, r, attributes, order, 1)

\* Errors returns the field of the Table.
Errors(t, r) == t.validationErrors

(***************************************************************************)
(* Record.insert and Record.update: the statement and its arguments        *)
(***************************************************************************)
RECURSIVE insertColumnsLoop(_, _, _, _, _)
insertColumnsLoop(t, r, i, assignedCount, b) ==
  IF i > Len(r.assigned) THEN [b |-> b, assignedCount |-> assignedCount]
  ELSE IF r.assigned[i]
       THEN insertColumnsLoop(t, r, i + 1, assignedCount + 1,
              (IF assignedCount > 0 THEN Append(b, ", ") ELSE b)
                \o <<t.Columns[i].quotedName>>)
       ELSE insertColumnsLoop(t, r, i + 1, assignedCount, b)

RECURSIVE insertValuesLoop(_, _, _, _, _)
insertValuesLoop(r, i, assignedCount, b, args) ==
  IF i > Len(r.assigned) THEN [b |-> b, args |-> args]
  ELSE IF r.assigned[i]
       THEN insertValuesLoop(r, i + 1, assignedCount + 1,
              (IF assignedCount > 0 THEN Append(b, ", ") ELSE b)
                \o <<"$", FormatInt(assignedCount + 1)>>,
              [args EXCEPT ![assignedCount + 1] = r.attributes[i]])
       ELSE insertValuesLoop(r, i + 1, assignedCount, b, args)

insert(t, r) ==
  LET cols == insertColumnsLoop(t, r, 1, 0, <<"insert into ", t.quotedQualifiedName, " (">>)
      vals == insertValuesLoop(r, 1, 0, Append(cols.b, ") values ("),
                               [k \in 1..cols.assignedCount |-> 0])
  IN  [sql |-> Append(vals.b, ") ") \o t.returningClause, args |-> vals.args]

RECURSIVE updatePKArgsLoop(_, _, _, _)
updatePKArgsLoop(t, r, k, args) ==
  IF k > Len(t.pkIndexes) THEN args
  ELSE updatePKArgsLoop(t, r, k + 1, Append(args, r.attributes[t.pkIndexes[k]]))

RECURSIVE updateSetLoop(_, _, _, _, _, _)
updateSetLoop(t, r, i, assignedCount, b, args) ==
  IF i > Len(r.assigned) THEN [b |-> b, args |-> args]
  ELSE IF r.assigned[i]
       THEN LET args1 == Append(args, r.attributes[i])
            IN  updateSetLoop(t, r, i + 1, assignedCount + 1,
                  (IF assignedCount > 0 THEN Append(b, ", ") ELSE b)
                    \o <<t.Columns[i].quotedName, " = $", FormatInt(Len(args1))>>,
                  args1)
       ELSE updateSetLoop(t, r, i + 1, assignedCount, b, args)

\* update as it would be if primary-key columns were left out of the SET list.
update_skipsPrimaryKeys(t, r) ==
  LET r0 == [r EXCEPT !.assigned =
               [i \in 1..Len(r.assigned) |-> r.assigned[i] /\ ~t.Columns[i].PrimaryKey]]
      pkArgs == updatePKArgsLoop(t, r0, 1, <<>>)
      set == updateSetLoop(t, r0, 1, 0, <<"update ", t.quotedQualifiedName, " set ">>, pkArgs)
  IN  [sql |-> Append(set.b, " ") \o t.pkWhereClause \o <<" ">> \o t.returningClause,
       args |-> set.args]

\* update as it would be if the primary-key values were appended after the
\* SET values while the WHERE clause kept its numbers.
update_pkArgsLast(t, r) ==
  LET set == updateSetLoop(t, r, 1, 0, <<"update ", t.quotedQualifiedName, " set ">>, <<>>)
  IN  [sql |-> Append(set.b, " ") \o t.pkWhereClause \o <<" ">> \o t.returningClause,
       args |-> updatePKArgsLoop(t, r, 1, set.args)]

\* update as it would be if the WHERE clause were bound to the snapshot.
update_wherePKFromSnapshot(t, r) ==
  LET pkArgs == updatePKArgsLoop(t, [r EXCEPT !.attributes = r.originalAttributes.elems],
                                 1, <<>>)
      set == updateSetLoop(t, r, 1, 0, <<"update ", t.quotedQualifiedName, " set ">>, pkArgs)
  IN  [sql |-> Append(set.b, " ") \o t.pkWhereClause \o <<" ">> \o t.returningClause,
       args |-> set.args]

update(t, r) ==
  LET pkArgs == updatePKArgsLoop(t, r, 1, <<>>)
      set == updateSetLoop(t, r, 1, 0, <<"update ", t.quotedQualifiedName, " set ">>, pkArgs)
  IN  [sql |-> Append(set.b, " ") \o t.pkWhereClause \o <<" ">> \o t.returningClause,
       args |-> set.args]

(***************************************************************************)
(* The driver.  db.Query answers with a pgx.Rows that is described by:     *)
(*   queryErr   Query itself returned an error;                            *)
(*   nrows      the number of rows Next delivers;                          *)
(*   row        the first row (the only one any caller here scans);        *)
(*   scanErrAt  0, or the destination at which Scan of that row fails;     *)
(*              a failed Scan records its error in the Rows and closes it; *)
(*   iterErr    Err is not nil once the rows are exhausted or closed.      *)
(***************************************************************************)
Response(queryErr, nrows, row, scanErrAt, iterErr) ==
  [queryErr |-> queryErr, nrows |-> nrows, row |-> row,
   scanErrAt |-> scanErrAt, iterErr |-> iterErr]

ZeroRow(n) == [i \in 1..n |-> 0]

\* The answers to a statement whose rows have n columns.
\* (Answers that no caller here can tell apart are listed once: after a
\* failed Scan the Rows is closed, so neither further rows nor iterErr show;
\* with more than one row no caller reaches the point where iterErr shows
\* differently from the second row.)
DriverResponses(n) ==
  {Response(TRUE, 0, ZeroRow(n), 0, FALSE)}
    \cup {Response(FALSE, 0, ZeroRow(n), 0, e) : e \in BOOLEAN}
    \cup {Response(FALSE, 1, row, 0, e) : row \in [1..n -> Values], e \in BOOLEAN}
    \cup {Response(FALSE, k, row, 0, FALSE) : k \in 2..MaxRows, row \in [1..n -> Values]}
    \cup {Response(FALSE, 1, row, at, FALSE) : row \in [1..n -> Values], at \in 1..n}

\* queryRow as it would be if it never counted the rows.
queryRow_ignoresRowCount(resp, scanTargets) ==
  IF resp.queryErr THEN [err |-> "driver", scanTargets |-> scanTargets]
  ELSE IF resp.nrows = 0 THEN [err |-> "nil", scanTargets |-> scanTargets]
  ELSE LET written == Scan(scanTargets, resp.row, resp.scanErrAt)
       IN  IF resp.scanErrAt # 0 THEN [err |-> "scan", scanTargets |-> written]
           ELSE IF resp.iterErr THEN [err |-> "driver", scanTargets |-> written]
           ELSE [err |-> "nil", scanTargets |-> written]

\* queryRow scans the first row straight into scanTargets, then looks for a
\* second row, then at rows.Err().
queryRow(resp, scanTargets) ==
  IF resp.queryErr THEN [err |-> "driver", scanTargets |-> scanTargets]
  ELSE IF resp.nrows = 0 THEN [err |-> "ErrNoRows", scanTargets |-> scanTargets]
  ELSE LET written == Scan(scanTargets, resp.row, resp.scanErrAt)
       IN  IF resp.scanErrAt = 0 /\ resp.nrows > 1
           THEN [err |-> "errTooManyRows", scanTargets |-> written]
           ELSE IF resp.scanErrAt # 0 THEN [err |-> "scan", scanTargets |-> written]
           ELSE IF resp.iterErr THEN [err |-> "driver", scanTargets |-> written]
           ELSE [err |-> "nil", scanTargets |-> written]

(***************************************************************************)
(* The hooks of a Table.  What a hook does is the caller's code:           *)
(*   a Normalize call may Set one attribute and may fail;                  *)
(*   a Validate call passes, fails with *ValidationErrors, or fails with   *)
(*   another error.                                                        *)
(***************************************************************************)
NormalizeRun(set, attribute, value, fail) ==
  [set |-> set, attribute |-> attribute, value |-> value, fail |-> fail]

NoNormalize == NormalizeRun(FALSE, "", 0, FALSE)

NormalizeRuns(t) ==
  {NormalizeRun(FALSE, "", 0, f) : f \in BOOLEAN}
    \cup {NormalizeRun(TRUE, t.Columns[Len(t.Columns)].Name, MaxVal, f) : f \in BOOLEAN}

ValidateRuns == {"ok", "ValidationErrors", "validate"}

\* What a Save did: the Table and Record it leaves, the error it returns, the
\* steps it took in order, the statements it sent, and the Record as it was
\* when the statement was built.
SaveResult(t, r, err, events, sent, built) ==
  [table |-> t, record |-> r, err |-> err, events |-> events, sent |-> sent,
   built |-> built]

(***************************************************************************)
(* Record.Save                                                             *)
(***************************************************************************)
\* if fn := r.table.Normalize; fn != nil { err := fn(ctx, db, r.table, r) ... }
saveNormalize(t, r, nz) ==
  IF t.Normalize /\ nz.set THEN Set(t, r, nz.attribute, nz.value).record ELSE r

\* saveStatement as it would be if it looked at the values of the snapshot.
saveStatement_byValues(t, r) ==
  IF r.originalAttributes.isNil
       \/ \A i \in 1..Len(r.originalAttributes.elems) : r.originalAttributes.elems[i] = 0
  THEN [path |-> "insert", stmt |-> insert(t, r)]
  ELSE [path |-> "update", stmt |-> update(t, r)]

\* if r.originalAttributes == nil { insert } else { update }
saveStatement(t, r) ==
  IF r.originalAttributes.isNil
  THEN [path |-> "insert", stmt |-> insert(t, r)]
  ELSE [path |-> "update", stmt |-> update(t, r)]

\* saveReconcile as it would be if it kept a snapshot the Record already had.
saveReconcile_keepsSnapshot(r) ==
  [r EXCEPT !.originalAttributes = IF r.originalAttributes.isNil
                                   THEN Slice(r.attributes)
                                   ELSE r.originalAttributes,
            !.assigned = [i \in 1..Len(r.assigned) |-> FALSE]]

\* saveReconcile as it would be if it copied only the attributes that are not nil.
saveReconcile_withoutNil(r) ==
  [r EXCEPT !.originalAttributes =
              Slice(SelectSeq(r.attributes, LAMBDA v : v # 0)),
            !.assigned = [i \in 1..Len(r.assigned) |-> FALSE]]

\* After queryRow returned nil: copy the attributes, clear assigned.
saveReconcile(r) ==
  [r EXCEPT !.originalAttributes = Slice(r.attributes),
            !.assigned = [i \in 1..Len(r.assigned) |-> FALSE]]

\* Save as it would be if it sent the statement before it looked at what
\* Validate returned.
Save_validatesAfterQuery(t, r, nz, vz, resp) ==
  LET t0 == [t EXCEPT !.validationErrors = "nil"]
      r1 == saveNormalize(t0, r, nz)
      ev1 == IF t0.Normalize THEN <<"Normalize">> ELSE <<>>
      built == saveStatement(t0, r1)
      q == queryRow(resp, r1.attributes)
      ev3 == ev1 \o <<built.path, "Query">>
      ev4 == IF t0.Validate THEN Append(ev3, "Validate") ELSE ev3
      r2 == [r1 EXCEPT !.attributes = q.scanTargets]
  IN  IF t0.Normalize /\ nz.fail
      THEN SaveResult(t0, r1, "normalize", ev1, <<>>, NoRecord)
      ELSE IF q.err # "nil"
      THEN SaveResult(t0, r2, q.err, ev3, <<built.stmt>>, r1)
      ELSE IF t0.Validate /\ vz # "ok"
      THEN SaveResult(t0, r2, vz, ev4, <<built.stmt>>, r1)
      ELSE SaveResult(t0, saveReconcile(r2), "nil", ev4, <<built.stmt>>, r1)

\* Save as it would be if it took the snapshot whatever queryRow returned.
Save_reconcilesOnError(t, r, nz, vz, resp) ==
  LET t0 == [t EXCEPT !.validationErrors = "nil"]
      r1 == saveNormalize(t0, r, nz)
      ev1 == IF t0.Normalize THEN <<"Normalize">> ELSE <<>>
      ev2 == IF t0.Validate THEN Append(ev1, "Validate") ELSE ev1
      built == saveStatement(t0, r1)
      q == queryRow(resp, r1.attributes)
      ev4 == ev2 \o <<built.path, "Query">>
      r2 == [r1 EXCEPT !.attributes = q.scanTargets]
  IN  IF t0.Normalize /\ nz.fail
      THEN SaveResult(t0, r1, "normalize", ev1, <<>>, NoRecord)
      ELSE IF t0.Validate /\ vz # "ok"
      THEN SaveResult(
             IF vz = "ValidationErrors" THEN [t0 EXCEPT !.validationErrors = "ve"] ELSE t0,
             r1, vz, ev2, <<>>, NoRecord)
      ELSE SaveResult(t0, saveReconcile(r2), q.err, ev4, <<built.stmt>>, r1)

Save(t, r, nz, vz, resp) ==
  LET t0 == [t EXCEPT !.validationErrors = "nil"]
      r1 == saveNormalize(t0, r, nz)
      ev1 == IF t0.Normalize THEN <<"Normalize">> ELSE <<>>
      ev2 == IF t0.Validate THEN Append(ev1, "Validate") ELSE ev1
      built == saveStatement(t0, r1)
      q == queryRow(resp, r1.attributes)
      ev4 == ev2 \o <<built.path, "Query">>
      r2 == [r1 EXCEPT !.attributes = q.scanTargets]
  IN  IF t0.Normalize /\ nz.fail
      THEN SaveResult(t0, r1, "normalize", ev1, <<>>, NoRecord)
      ELSE IF t0.Validate /\ vz # "ok"
      THEN SaveResult(
             IF vz = "ValidationErrors" THEN [t0 EXCEPT !.validationErrors = "ve"] ELSE t0,
             r1, vz, ev2, <<>>, NoRecord)
      ELSE IF q.err # "nil"
      THEN SaveResult(t0, r2, q.err, ev4, <<built.stmt>>, r1)
      ELSE SaveResult(t0, saveReconcile(r2), "nil", ev4, <<built.stmt>>, r1)

(***************************************************************************)
(* Table.FindByPK                                                          *)
(***************************************************************************)
\* pgx.CollectOneRow(rows, t.RowToRecord): the first row through fn, then
\* Close and rows.Err(); rows after the first are read and dropped by Close.
\* What CollectOneRow returns once fn returned rr for the first row.
collectOneRowFirst(rr, resp) ==
  IF rr.err # "nil" THEN [record |-> NoRecord, err |-> rr.err]
  ELSE IF resp.iterErr THEN [record |-> rr.record, err |-> "driver"]
  ELSE [record |-> rr.record, err |-> "nil"]

CollectOneRow(t, resp) ==
  IF resp.queryErr THEN [record |-> NoRecord, err |-> "driver"]
  ELSE IF resp.nrows = 0
  THEN [record |-> NoRecord, err |-> IF resp.iterErr THEN "driver" ELSE "ErrNoRows"]
  ELSE collectOneRowFirst(RowToRecord(t, resp.row, resp.scanErrAt), resp)

\* What FindByPK returns once CollectOneRow returned c.
findByPKResult(t, pk, c) ==
  [table |-> t,
   record |-> IF c.err # "nil" THEN NoRecord ELSE c.record,
   err |-> c.err,
   sent |-> <<[sql |-> t.selectByPKQuery, args |-> pk]>>]

findByPKQuery(t, pk, resp) == findByPKResult(t, pk, CollectOneRow(t, resp))

FindByPK(t, pk, resp) == findByPKQuery(ensureFinalized(t), pk, resp)

(***************************************************************************)
(* The free functions: statements built from maps of column name to value  *)
(***************************************************************************)
Alphabet ==
  <<"a", "b", "c", "d", "e", "f", "g", "h", "i", "j", "k", "l", "m",
    "n", "o", "p", "q", "r", "s", "t", "u", "v", "w", "x", "y", "z">>

UpperCase ==
  <<"A", "B", "C", "D", "E", "F", "G", "H", "I", "J", "K", "L", "M",
    "N", "O", "P", "Q", "R", "S", "T", "U", "V", "W", "X", "Y", "Z">>

Digits == <<"0", "1", "2", "3", "4", "5", "6", "7", "8", "9">>

\* The byte of a character.
Code(c) ==
  IF c = "\"" THEN 34
  ELSE IF c = " " THEN 32
  ELSE IF c = "." THEN 46
  ELSE IF c = "_" THEN 95
  ELSE IF \E k \in 1..Len(Digits) : Digits[k] = c
       THEN 47 + (CHOOSE k \in 1..Len(Digits) : Digits[k] = c)
  ELSE IF \E k \in 1..Len(UpperCase) : UpperCase[k] = c
       THEN 64 + (CHOOSE k \in 1..Len(UpperCase) : UpperCase[k] = c)
  ELSE 96 + (CHOOSE k \in 1..Len(Alphabet) : Alphabet[k] = c)

\* The order of Go strings: bytewise, a proper prefix first.
RECURSIVE BytesLess(_, _)
BytesLess(x, y) ==
  IF y = <<>> THEN FALSE
  ELSE IF x = <<>> THEN TRUE
  ELSE IF Code(Head(x)) # Code(Head(y)) THEN Code(Head(x)) < Code(Head(y))
  ELSE BytesLess(Tail(x), Tail(y))

StringLess(a, b) == BytesLess(Chars(a), Chars(b))

RECURSIVE InsertSorted(_, _)
InsertSorted(sorted, k) ==
  IF sorted = <<>> THEN <<k>>
  ELSE IF StringLess(k, Head(sorted)) THEN <<k>> \o sorted
  ELSE <<Head(sorted)>> \o InsertSorted(Tail(sorted), k)

\* The keys left in the order the range over the map yielded them.
SortStrings_unsorted(keys) == keys

\* sort.Strings(keys)
RECURSIVE SortStrings(_)
SortStrings(keys) ==
  IF keys = <<>> THEN <<>>
  ELSE InsertSorted(SortStrings(Tail(keys)), Head(keys))

\* values[k] of a Go map: the zero value when k is no key.
MapGet(m, k) == IF k \in DOMAIN m THEN m[k] ELSE 0

sanitizeIdentifier(s) == Sanitize(<<s>>)

\* The variant of sanitizeIdentifier that ranges over the runes of s and
\* quotes at the first one outside 0-9, a-z and _.
RECURSIVE sanitizeIdentifierLoop(_, _)
sanitizeIdentifierLoop(s, cs) ==
  IF cs = <<>> THEN s
  ELSE LET r == Code(Head(cs))
       IN  IF ~((r >= 48 /\ r <= 57) \/ (r >= 97 /\ r <= 122) \/ r = 95)
           THEN Sanitize(<<s>>)
           ELSE sanitizeIdentifierLoop(s, Tail(cs))

\* The variant with the return of s inside the loop: only the first rune
\* is looked at.
sanitizeIdentifier_part003_firstRune(s) ==
  IF Chars(s) = <<>> THEN s ELSE sanitizeIdentifierLoop(s, <<Head(Chars(s))>>)

sanitizeIdentifier_part003(s) == sanitizeIdentifierLoop(s, Chars(s))

\* if len(tableName) == 1 { sanitizeIdentifier(tableName[0]) } else { tableName.Sanitize() }
writeTableName(tableName) ==
  IF Len(tableName) = 1 THEN sanitizeIdentifier(tableName[1]) ELSE Sanitize(tableName)

writeReturning(b, returningClause) ==
  IF returningClause # "" THEN b \o <<" returning ", returningClause>> ELSE b

RECURSIVE writeKeysLoop(_, _, _)
writeKeysLoop(keys, i, b) ==
  IF i > Len(keys) THEN b
  ELSE writeKeysLoop(keys, i + 1,
         (IF i > 1 THEN Append(b, ", ") ELSE b) \o <<sanitizeIdentifier(keys[i])>>)

RECURSIVE insertRowValuesLoop(_, _, _, _, _)
insertRowValuesLoop(values, keys, i, b, args) ==
  IF i > Len(keys) THEN [b |-> b, args |-> args]
  ELSE insertRowValuesLoop(values, keys, i + 1,
         (IF i > 1 THEN Append(b, ", ") ELSE b) \o <<"$", FormatInt(i)>>,
         [args EXCEPT ![i] = MapGet(values, keys[i])])

\* order is the order in which the range over the map yields its keys.
insertRowSQL(tableName, values, order, returningClause) ==
  LET keys == SortStrings(order)
      b1 == writeKeysLoop(keys, 1, <<"insert into ", writeTableName(tableName), " (">>)
      v == insertRowValuesLoop(values, keys, 1, Append(b1, ") values ("),
                               [k \in 1..Len(keys) |-> 0])
  IN  [sql |-> writeReturning(Append(v.b, ")"), returningClause), args |-> v.args]

RECURSIVE insertSQLKeyLoop(_, _, _, _, _, _)
insertSQLKeyLoop(values, keys, j, placeholder, b, args) ==
  IF j > Len(keys) THEN [b |-> b, args |-> args, placeholder |-> placeholder]
  ELSE insertSQLKeyLoop(values, keys, j + 1, placeholder + 1,
         (IF j > 1 THEN Append(b, ", ") ELSE b) \o <<"$", FormatInt(placeholder)>>,
         Append(args, MapGet(values, keys[j])))

\* insertSQLRowLoop as it would be if the placeholder started at 1 in
\* every row.
RECURSIVE insertSQLRowLoop_restarts(_, _, _, _, _, _)
insertSQLRowLoop_restarts(rows, keys, i, placeholder, b, args) ==
  IF i > Len(rows) THEN [b |-> b, args |-> args]
  ELSE LET inner == insertSQLKeyLoop(rows[i], keys, 1, 1,
                      Append(b, IF i = 1 THEN ") values (" ELSE "), ("), args)
       IN  insertSQLRowLoop_restarts(rows, keys, i + 1, inner.placeholder, inner.b,
                                     inner.args)

RECURSIVE insertSQLRowLoop(_, _, _, _, _, _)
insertSQLRowLoop(rows, keys, i, placeholder, b, args) ==
  IF i > Len(rows) THEN [b |-> b, args |-> args]
  ELSE LET inner == insertSQLKeyLoop(rows[i], keys, 1, placeholder,
                      Append(b, IF i = 1 THEN ") values (" ELSE "), ("), args)
       IN  insertSQLRowLoop(rows, keys, i + 1, inner.placeholder, inner.b, inner.args)

\* len(rows) must be > 0; order is the order the range over rows[0] yields.
insertSQL(tableName, rows, order, returningClause) ==
  LET keys == SortStrings(order)
      b1 == writeKeysLoop(keys, 1, <<"insert into ", writeTableName(tableName), " (">>)
      v == insertSQLRowLoop(rows, keys, 1, 1, b1, <<>>)
  IN  [sql |-> writeReturning(Append(v.b, ")"), returningClause), args |-> v.args]

RECURSIVE updateSQLLoop(_, _, _, _, _, _)
updateSQLLoop(values, keys, i, sep, b, args) ==
  IF i > Len(keys) THEN [b |-> b, args |-> args]
  ELSE LET args1 == Append(args, MapGet(values, keys[i]))
       IN  updateSQLLoop(values, keys, i + 1, sep,
             (IF i > 1 THEN Append(b, sep) ELSE b)
               \o <<sanitizeIdentifier(keys[i]), " = $", FormatInt(Len(args1))>>,
             args1)

updateSQL(tableName, setValues, setOrder, whereValues, whereOrder, returningClause) ==
  LET set == updateSQLLoop(setValues, SortStrings(setOrder), 1, ", ",
                           <<"update ", writeTableName(tableName), " set ">>, <<>>)
      where == IF Cardinality(DOMAIN whereValues) > 0
               THEN updateSQLLoop(whereValues, SortStrings(whereOrder), 1, " and ",
                                  Append(set.b, " where "), set.args)
               ELSE set
  IN  [sql |-> writeReturning(where.b, returningClause), args |-> where.args]

\* writeKeysLoop and insertRowSQL of the variant, which differ from the above
\* in the sanitizeIdentifier they call.
RECURSIVE writeKeysLoop_part003(_, _, _)
writeKeysLoop_part003(keys, i, b) ==
  IF i > Len(keys) THEN b
  ELSE writeKeysLoop_part003(keys, i + 1,
         (IF i > 1 THEN Append(b, ", ") ELSE b) \o <<sanitizeIdentifier_part003(keys[i])>>)

insertRowSQL_part003(tableName, values, order, returningClause) ==
  LET keys == SortStrings(order)
      name == IF Len(tableName) = 1 THEN sanitizeIdentifier_part003(tableName[1])
              ELSE Sanitize(tableName)
      b1 == writeKeysLoop_part003(keys, 1, <<"insert into ", name, " (">>)
      v == insertRowValuesLoop(values, keys, 1, Append(b1, ") values ("),
                               [k \in 1..Len(keys) |-> 0])
  IN  [sql |-> writeReturning(Append(v.b, ")"), returningClause), args |-> v.args]

\* What the driver answers to a statement that exec runs: Query's error, the
\* rows affected that the command tag reports, the error of the closed Rows.
ExecAnswer(queryErr, rowsAffected, rowsErr) ==
  [queryErr |-> queryErr, rowsAffected |-> rowsAffected, rowsErr |-> rowsErr]

ExecAnswers ==
  {ExecAnswer(TRUE, 0, FALSE)}
    \cup {ExecAnswer(FALSE, k, e) : k \in 0..MaxRows, e \in BOOLEAN}

\* The zero CommandTag reports no rows affected.
exec(answer) ==
  IF answer.queryErr THEN [rowsAffected |-> 0, err |-> "driver"]
  ELSE [rowsAffected |-> answer.rowsAffected,
        err |-> IF answer.rowsErr THEN "driver" ELSE "nil"]

\* ExecRow without the look at the rows affected.
ExecRow_uncounted(answer) == exec(answer)

ExecRow(answer) ==
  LET e == exec(answer)
  IN  IF e.err # "nil" THEN e
      ELSE IF e.rowsAffected = 0 THEN [e EXCEPT !.err = "ErrNoRows"]
      ELSE IF e.rowsAffected > 1 THEN [e EXCEPT !.err = "errTooManyRows"]
      ELSE e

(***************************************************************************)
(* The interface-based API: Insert and Update through insertOrUpdate       *)
(***************************************************************************)
\* The interfaces a record implements and what its methods do when called.
Capabilities(normalizer, validator, validateFails, scanArgs, mapper) ==
  [Normalizer |-> normalizer, Validator |-> validator, validateFails |-> validateFails,
   scanArgs |-> scanArgs, PgErrorMapper |-> mapper]

RecordKinds ==
  {Capabilities(n, v, f, sc, m) :
     n \in BOOLEAN, v \in BOOLEAN, f \in BOOLEAN, sc \in BOOLEAN, m \in BOOLEAN}

\* What db.Exec, or db.Query and the Rows it opens, answer: the error (of
\* Exec, of Query or of rows.Err()), and the command tag.
TagAnswer(err, tag, rowsAffected) == [err |-> err, tag |-> tag, rowsAffected |-> rowsAffected]

TagAnswers ==
  {TagAnswer(e, "", 0) : e \in {"PgError", "driver"}}
    \cup {TagAnswer("nil", tag, k) :
            tag \in {"INSERT", "UPDATE", "DELETE", "SELECT"}, k \in 0..MaxRows}

\* tryMapPgError without the type assertion on the error.
tryMapPgError_anyError(record, err) ==
  IF record.PgErrorMapper THEN "mapped" ELSE err

tryMapPgError(record, err) ==
  IF record.PgErrorMapper /\ err = "PgError" THEN "mapped" ELSE err

\* expected is the statement kind the command tag must report: "INSERT" for
\* Insert, "UPDATE" for Update.
insertOrUpdate(record, expected, answer) ==
  LET ev1 == IF record.Normalizer THEN <<"Normalize">> ELSE <<>>
      ev2 == IF record.Validator THEN Append(ev1, "Validate") ELSE ev1
      ev3 == Append(ev2, "buildQuery")
      ev4 == Append(ev3, IF record.scanArgs THEN "Query" ELSE "Exec")
      stmt == [sql |-> <<expected>>, args |-> <<>>]
      done(err, n) == [err |-> err, rowCount |-> n, events |-> ev4, sent |-> <<stmt>>]
  IN  IF record.Validator /\ record.validateFails
      THEN [err |-> "validate", rowCount |-> 0, events |-> ev2, sent |-> <<>>]
      ELSE IF answer.err # "nil" THEN done(tryMapPgError(record, answer.err), 0)
      ELSE IF answer.tag # expected THEN done("badStatementType", 0)
      ELSE IF answer.rowsAffected = 0 THEN done("notFound", 0)
      ELSE IF answer.rowsAffected > 1 THEN done("multipleRows", answer.rowsAffected)
      ELSE done("nil", 0)

Delete(record, answer) ==
  IF answer.err # "nil" THEN [err |-> tryMapPgError(record, answer.err), rowCount |-> 0]
  ELSE IF answer.tag # "DELETE" THEN [err |-> "badStatementType", rowCount |-> 0]
  ELSE IF answer.rowsAffected = 0 THEN [err |-> "notFound", rowCount |-> 0]
  ELSE IF answer.rowsAffected > 1
  THEN [err |-> "multipleRows", rowCount |-> answer.rowsAffected]
  ELSE [err |-> "nil", rowCount |-> 0]

\* What db.Query answers to SelectOne and SelectAll: the error of Query
\* ("nil": none), the rows delivered (one value each), the row at which
\* Scan fails (0: none), the error of rows.Err() after the last row.
RowsAnswers ==
  {[queryErr |-> e, nrows |-> 0, row |-> <<>>, scanErrAt |-> 0, iterErr |-> "nil"] :
     e \in {"PgError", "driver"}}
    \cup UNION {{[queryErr |-> "nil", nrows |-> n, row |-> rows, scanErrAt |-> at,
                   iterErr |-> e] :
                   rows \in [1..n -> Values], at \in 0..n,
                   e \in {"nil", "PgError", "driver"}} : n \in 0..MaxRows}

\* SelectOne without the count of the rows after the first.
SelectOne_firstRowOnly(record, optionsErr, answer) ==
  IF optionsErr THEN [err |-> "options", rowCount |-> 0, scanned |-> <<>>, sent |-> FALSE]
  ELSE IF answer.queryErr # "nil"
  THEN [err |-> tryMapPgError(record, answer.queryErr), rowCount |-> 0,
        scanned |-> <<>>, sent |-> TRUE]
  ELSE IF answer.scanErrAt = 1
  THEN [err |-> "scan", rowCount |-> 0, scanned |-> <<>>, sent |-> TRUE]
  ELSE IF answer.iterErr # "nil"
  THEN [err |-> tryMapPgError(record, answer.iterErr), rowCount |-> 0,
        scanned |-> SubSeq(answer.row, 1, IF answer.nrows = 0 THEN 0 ELSE 1), sent |-> TRUE]
  ELSE IF answer.nrows = 0
  THEN [err |-> "notFound", rowCount |-> 0, scanned |-> <<>>, sent |-> TRUE]
  ELSE [err |-> "nil", rowCount |-> 0, scanned |-> SubSeq(answer.row, 1, 1), sent |-> TRUE]

\* scanned: the rows that were scanned into the record.
SelectOne(record, optionsErr, answer) ==
  IF optionsErr THEN [err |-> "options", rowCount |-> 0, scanned |-> <<>>, sent |-> FALSE]
  ELSE IF answer.queryErr # "nil"
  THEN [err |-> tryMapPgError(record, answer.queryErr), rowCount |-> 0,
        scanned |-> <<>>, sent |-> TRUE]
  ELSE IF answer.scanErrAt = 1
  THEN [err |-> "scan", rowCount |-> 0, scanned |-> <<>>, sent |-> TRUE]
  ELSE IF answer.iterErr # "nil"
  THEN [err |-> tryMapPgError(record, answer.iterErr), rowCount |-> 0,
        scanned |-> SubSeq(answer.row, 1, IF answer.nrows = 0 THEN 0 ELSE 1), sent |-> TRUE]
  ELSE IF answer.nrows = 0
  THEN [err |-> "notFound", rowCount |-> 0, scanned |-> <<>>, sent |-> TRUE]
  ELSE IF answer.nrows > 1
  THEN [err |-> "multipleRows", rowCount |-> answer.nrows,
        scanned |-> SubSeq(answer.row, 1, 1), sent |-> TRUE]
  ELSE [err |-> "nil", rowCount |-> 0, scanned |-> SubSeq(answer.row, 1, 1), sent |-> TRUE]

\* The collection after SelectAll: Add appends a record, 0 until a row is
\* scanned into it.  The first Add is made before the statement is built.
SelectAll(record, optionsErr, answer) ==
  IF optionsErr THEN [err |-> "options", collection |-> <<0>>, sent |-> FALSE]
  ELSE IF answer.queryErr # "nil"
  THEN [err |-> tryMapPgError(record, answer.queryErr), collection |-> <<0>>, sent |-> TRUE]
  ELSE IF answer.scanErrAt # 0
  THEN [err |-> "scan",
        collection |-> SubSeq(answer.row, 1, answer.scanErrAt - 1) \o <<0>>, sent |-> TRUE]
  ELSE IF answer.iterErr # "nil"
  THEN [err |-> tryMapPgError(record, answer.iterErr),
        collection |-> IF answer.nrows = 0 THEN <<0>> ELSE answer.row, sent |-> TRUE]
  ELSE [err |-> "nil",
        collection |-> IF answer.nrows = 0 THEN <<0>> ELSE answer.row, sent |-> TRUE]

(***************************************************************************)
(* The state machine: one action per exported operation                    *)
(***************************************************************************)
NoResponse == Response(FALSE, 0, <<>>, 0, FALSE)

\* The arguments of a call of a free function.
Input(tableName, values, rows, setValues, whereValues) ==
  [tableName |-> tableName, values |-> values, rows |-> rows,
   setValues |-> setValues, whereValues |-> whereValues]

NoInput == Input(<<>>, EmptyMap, <<>>, EmptyMap, EmptyMap)

\* What the hooks of a save do when called: "none" for a hook that is not
\* there, "ok" for one that returns nil, else the error it returns.
Hooks(normalize, validate) == [normalize |-> normalize, validate |-> validate]

NoHooks == Hooks("none", "none")

\* The record of a call; every action fills in what applies to it.
NoCapabilities == Capabilities(FALSE, FALSE, FALSE, FALSE, FALSE)

Call(op, rec) ==
  [op |-> op, rec |-> rec, attribute |-> "", value |-> 0, ret |-> 0,
   text |-> NilText, panic |-> FALSE, err |-> "nil", events |-> <<>>,
   sent |-> <<>>, resp |-> NoResponse, built |-> NoRecord,
   hadSnapshot |-> FALSE, firstSave |-> FALSE, madeBy |-> "", input |-> NoInput,
   hooks |-> NoHooks, before |-> NoRecord, record |-> NoCapabilities]

NotMade == [by |-> "", saveCalled |-> FALSE]

\* A call that runs while other callers run theirs: the method, the
\* statement it stands at, the error it returned, the statements it sent,
\* and its local variables: the text it read or is building, the loop index
\* i and the length n its range took, the slice it read before an append,
\* the slice its range over t.Columns runs over and whether t.Columns has
\* been assigned another slice since, the map it built, and the statement
\* finalize returns to.  Over the calls of one caller: how many times it has
\* saved and what Validate gave its latest Save.
InFlight(op, at) ==
  [op |-> op, at |-> at, err |-> "nil", sent |-> <<>>, text |-> NilText,
   i |-> 0, n |-> 0, read |-> <<>>, cols |-> <<>>, stale |-> FALSE,
   map |-> EmptyMap, back |-> "", saves |-> 0, own |-> "nil"]

NoCaller == InFlight("none", "idle")

Init ==
  /\ table \in {NewTable(s) : s \in TableShapes}
  /\ records = [id \in RecIds |-> NoRecord]
  /\ made = [id \in RecIds |-> NotMade]
  /\ last = Call("none", "")
  /\ inflight = [c \in {} |-> NoCaller]

NumColumns == Len(table.Columns)

\* The caller makes one call at a time, and reads what a call returned before
\* making the next one.
Idle == last.op = "none"

Return ==
  /\ ~Idle
  /\ last' = Call("none", "")
  /\ UNCHANGED <<table, records, made>>
  /\ UNCHANGED inflight

CallNewRecord(id) ==
  \E res \in {NewRecord(table)} :
      /\ Idle
      /\ table' = res.table
      /\ records' = [records EXCEPT ![id] = res.record]
      /\ made' = [made EXCEPT ![id] = [by |-> "NewRecord", saveCalled |-> FALSE]]
      /\ last' = Call("NewRecord", id)
      /\ UNCHANGED inflight

CallSelectQuery ==
  \E res \in {SelectQuery(table)} :
      /\ Idle
      /\ table' = res.table
      /\ last' = [Call("SelectQuery", "") EXCEPT !.text = res.ret]
      /\ UNCHANGED <<records, made, inflight>>

\* A caller loads a Record into a variable that holds none yet; NewRecord
\* may replace the Record a variable holds.
CallRowToRecord(id) ==
  /\ Idle
  /\ ~records[id].live
  /\ \E row \in [1..NumColumns -> Values], at \in 0..NumColumns :
     \E res \in {RowToRecord(table, row, at)} :
         /\ table' = res.table
         /\ records' = IF res.err = "nil" THEN [records EXCEPT ![id] = res.record] ELSE records
         /\ made' = IF res.err = "nil"
                    THEN [made EXCEPT ![id] = [by |-> "RowToRecord", saveCalled |-> FALSE]]
                    ELSE made
         /\ last' = [Call("RowToRecord", id) EXCEPT
                      !.err = res.err, !.resp = Response(FALSE, 1, row, at, FALSE)]
  /\ UNCHANGED inflight

\* The key values a caller passes: one per primary-key column, no two alike
\* where Values allows.
KeyTuples(k) == {[i \in 1..k |-> (v + i) % (MaxVal + 1)] : v \in Values}

CallFindByPK(id) ==
  /\ Idle
  /\ ~records[id].live
  /\ \E pk \in KeyTuples(Len(ensureFinalized(table).pkIndexes)),
        resp \in DriverResponses(NumColumns) :
     \E res \in {FindByPK(table, pk, resp)} :
         /\ table' = res.table
         /\ records' = IF res.err = "nil" THEN [records EXCEPT ![id] = res.record] ELSE records
         /\ made' = IF res.err = "nil"
                    THEN [made EXCEPT ![id] = [by |-> "RowToRecord", saveCalled |-> FALSE]]
                    ELSE made
         /\ last' = [Call("FindByPK", id) EXCEPT
                      !.err = res.err, !.sent = res.sent, !.resp = resp]
  /\ UNCHANGED inflight

\* The names a caller passes: the Table's column names and one unknown name.
CallerNames ==
  {table.Columns[i].Name : i \in 1..NumColumns}
    \cup DOMAIN table.nameToColumnIndex \cup {"x"}

CallSet(id) ==
  /\ Idle
  /\ records[id].live
  /\ \E attribute \in CallerNames, value \in Values :
       LET res == Set(table, records[id], attribute, value)
       IN  /\ records' = [records EXCEPT ![id] = res.record]
           /\ last' = [Call("Set", id) EXCEPT
                         !.attribute = attribute, !.value = value,
                         !.panic = res.panic]
  /\ UNCHANGED <<table, made>>
  /\ UNCHANGED inflight

CallGet(id) ==
  /\ Idle
  /\ records[id].live
  /\ \E attribute \in CallerNames :
       LET res == Get(table, records[id], attribute)
       IN  last' = [Call("Get", id) EXCEPT
                      !.attribute = attribute, !.ret = res.value,
                      !.panic = res.panic]
  /\ UNCHANGED <<table, records, made>>
  /\ UNCHANGED inflight

\* The runs of the hooks and the answer of the driver that one Save can meet:
\* a hook that is not configured or not reached does not run, a driver that
\* is not reached does not answer.
SaveInputs(t) ==
  LET nzs == IF t.Normalize THEN NormalizeRuns(t) ELSE {NoNormalize}
      vzs == IF t.Validate THEN ValidateRuns ELSE {"ok"}
  IN  {<<nz, "ok", NoResponse>> : nz \in {n \in nzs : n.fail}}
        \cup {<<nz, vz, NoResponse>> : nz \in {n \in nzs : ~n.fail}, vz \in vzs \ {"ok"}}
        \cup {<<nz, "ok", resp>> : nz \in {n \in nzs : ~n.fail},
                                   resp \in DriverResponses(Len(t.Columns))}

CallSave(id) ==
  /\ Idle
  /\ records[id].live
  /\ \E in \in SaveInputs(table) :
       \E res \in {Save(table, records[id], in[1], in[2], in[3])} :
           /\ table' = res.table
           /\ records' = [records EXCEPT ![id] = res.record]
           /\ made' = [made EXCEPT ![id].saveCalled = TRUE]
           /\ last' = [Call("Save", id) EXCEPT
                         !.err = res.err, !.events = res.events, !.sent = res.sent,
                         !.resp = in[3], !.built = res.built,
                         !.hadSnapshot = ~records[id].originalAttributes.isNil,
                         !.firstSave = ~made[id].saveCalled,
                         !.madeBy = made[id].by,
                         !.hooks = Hooks(
                            IF ~table.Normalize THEN "none"
                            ELSE IF in[1].fail THEN "normalize" ELSE "ok",
                            IF ~table.Validate THEN "none" ELSE in[2])]
  /\ UNCHANGED inflight

(***************************************************************************)
(* Calls of the functions that take no Table.  They read and write no      *)
(* Table and no Record, so the model makes them before the Table's first   *)
(* use only, and in the runs of one Table only.                            *)
(***************************************************************************)
BeforeTable == Idle /\ ~table.finalized /\ table.Name = <<"widgets">>

TableNames == {<<"widgets">>, <<"public", "pairs">>}

KeyNames == {"name", "id"}

\* The maps of column name to value a caller passes.
ValueMaps == UNION {[K -> Values] : K \in SUBSET KeyNames}

\* The orders in which a range over map m can yield its keys.
RangeOrders(m) ==
  {o \in UNION {[1..n -> DOMAIN m] : n \in {Cardinality(DOMAIN m)}} :
     \A i, j \in DOMAIN o : i # j => o[i] # o[j]}

\* The slices of at most MaxRows maps.
RowMaps == UNION {[1..n -> ValueMaps] : n \in 0..MaxRows}

CallInsertRow ==
  /\ BeforeTable
  /\ \E tableName \in TableNames, values \in ValueMaps, answer \in ExecAnswers :
       \E order \in RangeOrders(values) :
         LET stmt == insertRowSQL(tableName, values, order, "")
             res == exec(answer)
         IN  last' = [Call("InsertRow", "") EXCEPT
                        !.input = Input(tableName, values, <<>>, EmptyMap, EmptyMap),
                        !.sent = <<stmt>>, !.err = res.err]
  /\ UNCHANGED <<table, records, made>>
  /\ UNCHANGED inflight

CallInsert ==
  /\ BeforeTable
  /\ \E tableName \in TableNames, rows \in RowMaps, answer \in ExecAnswers :
       IF Len(rows) = 0
       THEN last' = [Call("Insert", "") EXCEPT
                       !.input = Input(tableName, EmptyMap, rows, EmptyMap, EmptyMap)]
       ELSE \E order \in RangeOrders(rows[1]) :
              LET stmt == insertSQL(tableName, rows, order, "")
                  res == exec(answer)
              IN  last' = [Call("Insert", "") EXCEPT
                             !.input = Input(tableName, EmptyMap, rows, EmptyMap, EmptyMap),
                             !.sent = <<stmt>>, !.err = res.err,
                             !.ret = res.rowsAffected]
  /\ UNCHANGED <<table, records, made>>
  /\ UNCHANGED inflight

CallUpdateRow ==
  /\ BeforeTable
  /\ \E tableName \in TableNames, setValues \in ValueMaps, whereValues \in ValueMaps,
        answer \in ExecAnswers :
       \E setOrder \in RangeOrders(setValues), whereOrder \in RangeOrders(whereValues) :
         LET stmt == updateSQL(tableName, setValues, setOrder, whereValues, whereOrder, "")
             res == ExecRow(answer)
         IN  last' = [Call("UpdateRow", "") EXCEPT
                        !.input = Input(tableName, EmptyMap, <<>>, setValues, whereValues),
                        !.sent = <<stmt>>, !.err = res.err,
                        !.resp = Response(answer.queryErr, answer.rowsAffected, <<>>,
                                          0, answer.rowsErr)]
  /\ UNCHANGED <<table, records, made>>
  /\ UNCHANGED inflight

\* Insert and Update of the interface-based API.
CallInsertOrUpdate ==
  /\ BeforeTable
  /\ \E record \in RecordKinds, expected \in {"INSERT", "UPDATE"}, answer \in TagAnswers :
       LET res == insertOrUpdate(record, expected, answer)
       IN  last' = [Call(IF expected = "INSERT" THEN "Insert(record)" ELSE "Update(record)", "")
                      EXCEPT !.err = res.err, !.events = res.events, !.sent = res.sent,
                             !.ret = res.rowCount, !.record = record,
                             !.resp = [queryErr |-> answer.err, nrows |-> answer.rowsAffected,
                                       row |-> <<>>, scanErrAt |-> 0, iterErr |-> "nil",
                                       tag |-> answer.tag],
                             !.hooks = Hooks(
                                IF record.Normalizer THEN "ok" ELSE "none",
                                IF ~record.Validator THEN "none"
                                ELSE IF record.validateFails THEN "validate" ELSE "ok")]
  /\ UNCHANGED <<table, records, made>>
  /\ UNCHANGED inflight

Next ==
  \/ Return
  \/ \E id \in RecIds : CallNewRecord(id)
  \/ CallSelectQuery
  \/ \E id \in RecIds : CallRowToRecord(id)
  \/ \E id \in RecIds : CallFindByPK(id)
  \/ \E id \in RecIds : CallSet(id)
  \/ \E id \in RecIds : CallGet(id)
  \/ \E id \in RecIds : CallSave(id)
  \/ CallInsertRow
  \/ CallInsert
  \/ CallUpdateRow
  \/ CallInsertOrUpdate

Spec == Init /\ [][Next]_vars

InitLoad ==
  /\ table \in {NewTable(s) :
                  s \in TableShapes \cup
                        {[Name |-> <<"a", "public", "pairs">>,
                          Columns |-> <<Col("id", TRUE)>>,
                          Normalize |-> FALSE, Validate |-> FALSE]}}
  /\ records = [id \in RecIds |-> NoRecord]
  /\ made = [id \in RecIds |-> NotMade]
  /\ last = Call("none", "")
  /\ inflight = [c \in {"loader"} \cup RecIds |-> NoCaller]

\* The caller read what its call returned.
Returned(c) ==
  /\ inflight[c].at = "returned"
  /\ inflight' = [inflight EXCEPT ![c] =
                    [NoCaller EXCEPT !.saves = inflight[c].saves,
                                     !.own = inflight[c].own]]
  /\ UNCHANGED <<table, records, made, last>>

\* LoadAllColumnsTest as it would be without the test of t.finalized.
LoadAllColumnsTest_noGuard(c) ==
  /\ inflight[c].at = "idle"
  /\ inflight' = [inflight EXCEPT ![c] =
                    [InFlight("LoadAllColumns",
                              IF oidQuery(table) = <<>> THEN "panic" ELSE "oid")
                       EXCEPT !.sent = oidQuery(table)]]
  /\ UNCHANGED <<table, records, made, last>>

\* if t.finalized { return error }, and past it the query for the OID is
\* sent and the call waits for its answer; with no query sent rows is nil
\* and pgx.CollectOneRow panics.
LoadAllColumnsTest(c) ==
  /\ inflight[c].at = "idle"
  /\ inflight' = [inflight EXCEPT ![c] =
                    IF table.finalized
                    THEN [InFlight("LoadAllColumns", "returned") EXCEPT
                            !.err = "finalized"]
                    ELSE [InFlight("LoadAllColumns",
                                   IF oidQuery(table) = <<>> THEN "panic" ELSE "oid")
                            EXCEPT !.sent = oidQuery(table)]]
  /\ UNCHANGED <<table, records, made, last>>

\* The answer for the OID: an error returns, a row sends the query for the
\* columns and the call waits again.
LoadAllColumnsOID(c) ==
  /\ inflight[c].op = "LoadAllColumns"
  /\ inflight[c].at = "oid"
  /\ \E oid \in OIDAnswers :
       inflight' = [inflight EXCEPT ![c] =
                      IF oid # "ok"
                      THEN [@ EXCEPT !.at = "returned", !.err = "oid"]
                      ELSE [@ EXCEPT !.at = "columns",
                                     !.sent = Append(@, columnsQuery)]]
  /\ UNCHANGED <<table, records, made, last>>

\* t.Columns, err = pgx.CollectRows(...) assigns Columns whatever err is
\* (nil when the query for the columns failed) and whatever the Table has
\* become since the test.  The Columns are new objects: a range that
\* another caller began over the old slice goes on over the old one.
LoadAllColumnsCollect(c) ==
  /\ inflight[c].op = "LoadAllColumns"
  /\ inflight[c].at = "columns"
  /\ \E cols \in ColumnsAnswers :
       /\ table' = [table EXCEPT !.Columns = cols.columns]
       /\ inflight' =
            [d \in DOMAIN inflight |->
               IF d = c
               THEN [inflight[d] EXCEPT
                       !.at = "returned",
                       !.err = IF cols.err THEN "columns" ELSE "nil"]
               ELSE IF inflight[d].at \in {"column", "read", "append"}
               THEN [inflight[d] EXCEPT !.stale = TRUE]
               ELSE inflight[d]]
  /\ UNCHANGED <<records, made, last>>

(***************************************************************************)
(* Select and SelectRow: the rows of a query collected through scanFn      *)
(***************************************************************************)
\* What the driver answers to a query: the error of db.Query, the rows it
\* delivers before the end or an error (one value each), the row at which
\* scanFn fails (0: none), and whether rows.Err() reports an error after the
\* last row.  The command tag of Rows closed without error counts its rows.
SelectAnswers ==
  {Response(TRUE, 0, <<>>, 0, FALSE)}
    \cup UNION {{Response(FALSE, n, rows, at, e) :
                   rows \in [1..n -> Values], at \in 0..n, e \in BOOLEAN} : n \in 0..MaxRows}

\* SelectRow without the look at the command tag.
SelectRow_firstRowOnly(answer) ==
  IF answer.queryErr THEN [value |-> 0, err |-> "driver"]
  ELSE IF answer.nrows = 0
  THEN [value |-> 0, err |-> IF answer.iterErr THEN "driver" ELSE "ErrNoRows"]
  ELSE IF answer.scanErrAt = 1 THEN [value |-> 0, err |-> "scan"]
  ELSE IF answer.iterErr THEN [value |-> 0, err |-> "driver"]
  ELSE [value |-> answer.row[1], err |-> "nil"]

\* pgx.CollectOneRow: no row gives rows.Err() or pgx.ErrNoRows; else scanFn
\* on the first row, rows.Close() and rows.Err().  Then the command tag.
SelectRow(answer) ==
  IF answer.queryErr THEN [value |-> 0, err |-> "driver"]
  ELSE IF answer.nrows = 0
  THEN [value |-> 0, err |-> IF answer.iterErr THEN "driver" ELSE "ErrNoRows"]
  ELSE IF answer.scanErrAt = 1 THEN [value |-> 0, err |-> "scan"]
  ELSE IF answer.iterErr THEN [value |-> 0, err |-> "driver"]
  ELSE IF answer.nrows > 1 THEN [value |-> answer.row[1], err |-> "errTooManyRows"]
  ELSE [value |-> answer.row[1], err |-> "nil"]

\* pgx.CollectRows: scanFn on every row, nil and the error at the first
\* failure, then rows.Err(); the slice starts as []T{}.
Select(answer) ==
  IF answer.queryErr THEN [isNil |-> TRUE, elems |-> <<>>, err |-> "driver"]
  ELSE IF answer.scanErrAt # 0 THEN [isNil |-> TRUE, elems |-> <<>>, err |-> "scan"]
  ELSE IF answer.iterErr THEN [isNil |-> TRUE, elems |-> <<>>, err |-> "driver"]
  ELSE [isNil |-> FALSE, elems |-> answer.row, err |-> "nil"]

CallSelectRow ==
  /\ BeforeTable
  /\ \E answer \in SelectAnswers :
       last' = [Call("SelectRow", "") EXCEPT
                  !.resp = answer, !.ret = SelectRow(answer).value,
                  !.err = SelectRow(answer).err]
  /\ UNCHANGED <<table, records, made>>
  /\ UNCHANGED inflight

CallSelect ==
  /\ BeforeTable
  /\ \E answer \in SelectAnswers :
       last' = [Call("Select", "") EXCEPT
                  !.resp = answer,
                  !.ret = [isNil |-> Select(answer).isNil, elems |-> Select(answer).elems],
                  !.err = Select(answer).err]
  /\ UNCHANGED <<table, records, made>>
  /\ UNCHANGED inflight

\* The records of the interface-based API that Delete, SelectOne and
\* SelectAll are called with: with and without MapPgError.
Selectors == {Capabilities(FALSE, FALSE, FALSE, FALSE, m) : m \in BOOLEAN}

CallDelete ==
  /\ BeforeTable
  /\ \E record \in Selectors, answer \in TagAnswers :
       last' = [Call("Delete", "") EXCEPT
                  !.record = record,
                  !.resp = [queryErr |-> answer.err, nrows |-> answer.rowsAffected,
                            row |-> <<>>, scanErrAt |-> 0, iterErr |-> "nil",
                            tag |-> answer.tag],
                  !.err = Delete(record, answer).err,
                  !.ret = Delete(record, answer).rowCount]
  /\ UNCHANGED <<table, records, made>>
  /\ UNCHANGED inflight

CallSelectOne ==
  /\ BeforeTable
  /\ \E record \in Selectors, optionsErr \in BOOLEAN, answer \in RowsAnswers :
       \E res \in {SelectOne(record, optionsErr, answer)} :
         last' = [Call("SelectOne", "") EXCEPT
                    !.record = record,
                    !.resp = IF res.sent THEN answer ELSE [answer EXCEPT !.queryErr = "unsent"],
                    !.err = res.err, !.ret = res.rowCount, !.events = res.scanned]
  /\ UNCHANGED <<table, records, made>>
  /\ UNCHANGED inflight

CallSelectAll ==
  /\ BeforeTable
  /\ \E record \in Selectors, optionsErr \in BOOLEAN, answer \in RowsAnswers :
       \E res \in {SelectAll(record, optionsErr, answer)} :
         last' = [Call("SelectAll", "") EXCEPT
                    !.record = record,
                    !.resp = IF res.sent THEN answer ELSE [answer EXCEPT !.queryErr = "unsent"],
                    !.err = res.err, !.events = res.collection]
  /\ UNCHANGED <<table, records, made>>
  /\ UNCHANGED inflight

\* A caller of the functions that run a statement and read its rows or its
\* command tag.
NextRows ==
  \/ Return
  \/ CallSelectRow
  \/ CallSelect
  \/ CallInsertOrUpdate
  \/ CallDelete
  \/ CallSelectOne
  \/ CallSelectAll

SpecRows == Init /\ [][NextRows]_vars

(***************************************************************************)
(* A caller of the free functions with identifiers of every kind           *)
(***************************************************************************)
\* Identifiers of lower case letters, digits and underscores, the empty
\* one, and identifiers with an upper case letter, a space, a dot, a quote.
Identifiers == {"id", "name", "x_1", "", "Name", "a b", "a.b", "m\"q"}

\* The maps of one identifier to a value.
IdentifierMaps == {[k \in {key} |-> v] : key \in Identifiers, v \in Values}

CallSanitizeIdentifier ==
  /\ BeforeTable
  /\ \E s \in Identifiers :
       last' = [Call("sanitizeIdentifier", "") EXCEPT
                  !.attribute = s, !.text = sanitizeIdentifier(s)]
  /\ UNCHANGED <<table, records, made>>
  /\ UNCHANGED inflight

CallSanitizeIdentifier_part003 ==
  /\ BeforeTable
  /\ \E s \in Identifiers :
       last' = [Call("sanitizeIdentifier_part003", "") EXCEPT
                  !.attribute = s, !.text = sanitizeIdentifier_part003(s)]
  /\ UNCHANGED <<table, records, made>>
  /\ UNCHANGED inflight

CallInsertRowNamed ==
  /\ BeforeTable
  /\ \E s \in Identifiers, values \in IdentifierMaps, answer \in ExecAnswers :
       \E order \in RangeOrders(values) :
         last' = [Call("InsertRow", "") EXCEPT
                    !.input = Input(<<s>>, values, <<>>, EmptyMap, EmptyMap),
                    !.sent = <<insertRowSQL(<<s>>, values, order, "")>>,
                    !.err = exec(answer).err]
  /\ UNCHANGED <<table, records, made>>
  /\ UNCHANGED inflight

CallInsertRowNamed_part003 ==
  /\ BeforeTable
  /\ \E s \in Identifiers, values \in IdentifierMaps, answer \in ExecAnswers :
       \E order \in RangeOrders(values) :
         last' = [Call("InsertRow_part003", "") EXCEPT
                    !.input = Input(<<s>>, values, <<>>, EmptyMap, EmptyMap),
                    !.sent = <<insertRowSQL_part003(<<s>>, values, order, "")>>,
                    !.err = exec(answer).err]
  /\ UNCHANGED <<table, records, made>>
  /\ UNCHANGED inflight

NextIdentifiers ==
  \/ Return
  \/ CallSanitizeIdentifier
  \/ CallSanitizeIdentifier_part003
  \/ CallInsertRowNamed
  \/ CallInsertRowNamed_part003

SpecIdentifiers == Init /\ [][NextIdentifiers]_vars

(***************************************************************************)
(* A caller that sets attributes from maps.  RangeOrders is defined with   *)
(* the free functions below the Record calls, so these calls stand here.   *)
(***************************************************************************)
\* The maps a caller passes: values for some of the column names and of one
\* unknown name.
AttributeMaps == UNION {[K -> Values] : K \in SUBSET CallerNames}

CallSetAttributes(id) ==
  /\ Idle
  /\ records[id].live
  /\ \E attributes \in AttributeMaps :
       \E order \in RangeOrders(attributes) :
         \E res \in {SetAttributes(table, records[id], attributes, order)} :
           /\ records' = [records EXCEPT ![id] = res.record]
           /\ last' = [Call("SetAttributes", id) EXCEPT
                         !.input = Input(<<>>, attributes, <<>>, EmptyMap, EmptyMap),
                         !.panic = res.panic, !.before = records[id]]
  /\ UNCHANGED <<table, made>>
  /\ UNCHANGED inflight

CallSetAttributesStrict(id) ==
  /\ Idle
  /\ records[id].live
  /\ \E attributes \in AttributeMaps :
       \E order \in RangeOrders(attributes) :
         \E res \in {SetAttributesStrict(table, records[id], attributes, order)} :
           /\ records' = [records EXCEPT ![id] = res.record]
           /\ last' = [Call("SetAttributesStrict", id) EXCEPT
                         !.input = Input(<<>>, attributes, <<>>, EmptyMap, EmptyMap),
                         !.err = res.err, !.panic = res.panic,
                         !.before = records[id]]
  /\ UNCHANGED <<table, made>>
  /\ UNCHANGED inflight

NextAttributes ==
  \/ Return
  \/ \E id \in RecIds : CallNewRecord(id)
  \/ \E id \in RecIds : CallRowToRecord(id)
  \/ \E id \in RecIds : CallGet(id)
  \/ \E id \in RecIds : CallSetAttributes(id)
  \/ \E id \in RecIds : CallSetAttributesStrict(id)

SpecAttributes == Init /\ [][NextAttributes]_vars

(***************************************************************************)
(* Two callers, each with its own Record of one Table, that save at the    *)
(* same time and ask for the errors.  Save waits inside Normalize, inside  *)
(* Validate and for the answer to its statement, and other callers run     *)
(* meanwhile; inflight[c].at names what the Save of caller c waits for.    *)
(* The Record is the caller's own; validationErrors is the Table's.  The   *)
(* Records are made one after the other before their callers save: the     *)
(* callers that make their first use at the same time are those of         *)
(* SpecRace.                                                               *)
(***************************************************************************)
CallErrors(c) ==
  /\ inflight[c].at = "idle"
  /\ records[c].live
  /\ inflight' = [inflight EXCEPT ![c] =
                    [@ EXCEPT !.op = "Errors", !.at = "returned",
                              !.text = Errors(table, records[c])]]
  /\ UNCHANGED <<table, records, made, last>>

InitErrors ==
  /\ table \in {NewTable(s) : s \in TableShapes}
  /\ records = [id \in {"r1", "r2"} |-> NoRecord]
  /\ made = [id \in {"r1", "r2"} |-> NotMade]
  /\ last = Call("none", "")
  /\ inflight = [c \in {"r1", "r2"} |-> NoCaller]

\* Save once a hook returned without error, or had not to run: the next hook
\* is called, or the statement is built from the Record and sent.
SaveGoOn(w, r, after) ==
  IF after = "start" /\ table.Normalize THEN [w EXCEPT !.at = "normalize"]
  ELSE IF after \in {"start", "normalize"} /\ table.Validate
  THEN [w EXCEPT !.at = "validate"]
  ELSE [w EXCEPT !.at = "query", !.sent = <<saveStatement(table, r).stmt>>]

\* r.table.validationErrors = nil, then up to the first wait.
SaveBegin(c) ==
  /\ inflight[c].at = "idle"
  /\ inflight[c].saves < MaxSaves
  /\ records[c].live
  /\ table' = [table EXCEPT !.validationErrors = "nil"]
  /\ made' = [made EXCEPT ![c].saveCalled = TRUE]
  /\ inflight' = [inflight EXCEPT ![c] =
                    SaveGoOn([InFlight("Save", "start") EXCEPT
                                !.saves = inflight[c].saves + 1],
                             records[c], "start")]
  /\ UNCHANGED <<records, last>>

\* Normalize returned.
SaveNormalized(c) ==
  /\ inflight[c].op = "Save"
  /\ inflight[c].at = "normalize"
  /\ \E nz \in NormalizeRuns(table) :
       \E r1 \in {saveNormalize(table, records[c], nz)} :
         /\ records' = [records EXCEPT ![c] = r1]
         /\ inflight' = [inflight EXCEPT ![c] =
                           IF nz.fail
                           THEN [@ EXCEPT !.at = "returned", !.err = "normalize"]
                           ELSE SaveGoOn(@, r1, "normalize")]
  /\ UNCHANGED <<table, made, last>>

\* Validate returned: a *ValidationErrors is stored in the Table.
SaveValidated(c) ==
  /\ inflight[c].op = "Save"
  /\ inflight[c].at = "validate"
  /\ \E vz \in ValidateRuns :
       /\ table' = IF vz = "ValidationErrors"
                   THEN [table EXCEPT !.validationErrors = "ve"]
                   ELSE table
       /\ inflight' = [inflight EXCEPT ![c] =
                         IF vz # "ok"
                         THEN [@ EXCEPT !.at = "returned", !.err = vz,
                                        !.own = IF vz = "ValidationErrors"
                                                THEN "ve" ELSE "nil"]
                         ELSE SaveGoOn(@, records[c], "validate")]
  /\ UNCHANGED <<records, made, last>>

\* The statement was answered: queryRow scans into the attributes, and after
\* a nil error the snapshot is taken and assigned is cleared.
SaveAnswered(c) ==
  /\ inflight[c].op = "Save"
  /\ inflight[c].at = "query"
  /\ \E resp \in DriverResponses(Len(table.Columns)) :
       \E q \in {queryRow(resp, records[c].attributes)} :
         \E r2 \in {[records[c] EXCEPT !.attributes = q.scanTargets]} :
           /\ records' = [records EXCEPT ![c] =
                            IF q.err # "nil" THEN r2 ELSE saveReconcile(r2)]
           /\ inflight' = [inflight EXCEPT ![c] =
                             [@ EXCEPT !.at = "returned", !.err = q.err]]
  /\ UNCHANGED <<table, made, last>>

NextErrors ==
  \/ Return
  \/ \E id \in DOMAIN records : ~records[id].live /\ CallNewRecord(id)
  \/ \E c \in DOMAIN inflight : Returned(c)
  \/ \E c \in DOMAIN inflight : SaveBegin(c)
  \/ \E c \in DOMAIN inflight : SaveNormalized(c)
  \/ \E c \in DOMAIN inflight : SaveValidated(c)
  \/ \E c \in DOMAIN inflight : SaveAnswered(c)
  \/ \E c \in DOMAIN inflight : CallErrors(c)

SpecErrors == InitErrors /\ [][NextErrors]_vars

(***************************************************************************)
(* Callers that use one Table at the same time.  No lock orders them: a    *)
(* step is one read or one write of a field of the Table by one caller,    *)
(* and inflight[c].at is the statement caller c stands at:                 *)
(*   "test"        if !t.finalized { t.finalize() }  of the method called  *)
(*   "rowTest"     the same test of RowToRecord, called by CollectOneRow   *)
(*   "newTest"     the same test of NewRecord, called by RowToRecord       *)
(*   "enter"       if t.finalized { panic(...) }     of finalize           *)
(*   "flag"        t.finalized = true                                      *)
(*   "qualified"   t.quotedQualifiedName = ...                             *)
(*   "quoted"      t.quotedName = ...                                      *)
(*   "range"       for i, c := range t.Columns  takes the slice            *)
(*   "column"      c.quotedName = ...  for column i of that slice          *)
(*   "read"        append(t.pkIndexes, i) reads t.pkIndexes                *)
(*   "append"      t.pkIndexes = ...  is written                           *)
(*   "pkWhereLen"  buildPKWhereClause: range t.pkIndexes takes the length  *)
(*   "pkWhereTerm" one iteration: t.Columns[t.pkIndexes[i]] is read        *)
(*   "pkWhereStore"  t.pkWhereClause = ...                                 *)
(*   "selectLen", "selectTerm", "selectStore"  the same of buildSelectQuery*)
(*   "selectByPKRead", "selectByPKStore"       t.selectByPKQuery = ...     *)
(*   "returningRead", "returningStore"         t.returningClause = ...     *)
(*   "indexRead", "indexStore"                 t.nameToColumnIndex = ...   *)
(*   "use"         SelectQuery reads t.selectQuery; FindByPK reads         *)
(*                 t.selectByPKQuery and sends it                          *)
(*   "answer"      FindByPK waits for the answer to its query              *)
(*   "attributes"  NewRecord: make([]any, len(t.Columns))                  *)
(*   "assigned"    NewRecord: make([]bool, len(t.Columns))                 *)
(*   "returned", "panic", "outOfRange"  it returned or panicked.           *)
(* The fields a caller wrote itself before it reads them (quotedName,      *)
(* quotedQualifiedName, the quotedName of the columns it ranged over) get  *)
(* the same value from every caller, so such a read is part of the step    *)
(* that uses it.                                                           *)
(***************************************************************************)
InitRace ==
  /\ table \in {NewTable(s) : s \in TableShapes}
  /\ records = [c \in {"r1", "r2"} |-> NoRecord]
  /\ made = [c \in {"r1", "r2"} |-> NotMade]
  /\ last = Call("none", "")
  /\ inflight \in {[c \in {"r1", "r2"} |-> InFlight(methods[c], "test")] :
                     methods \in [{"r1", "r2"} -> {"NewRecord", "SelectQuery",
                                                   "FindByPK", "RowToRecord"}]}

\* A caller that read what its last call returned calls NewRecord or
\* SelectQuery.
FirstUseCall(c) ==
  /\ Idle
  /\ inflight[c].at = "idle"
  /\ \E op \in {"NewRecord", "SelectQuery"} :
       inflight' = [inflight EXCEPT ![c] = InFlight(op, "test")]
  /\ UNCHANGED <<table, records, made, last>>

\* The statement after if !t.finalized { t.finalize() }: NewRecord makes its
\* slices, SelectQuery and FindByPK read their query, RowToRecord calls
\* t.NewRecord().
AfterTest(op, at) ==
  CASE at = "test" /\ op = "NewRecord" -> "attributes"
    [] at = "test" /\ op \in {"SelectQuery", "FindByPK"} -> "use"
    [] at = "test" /\ op = "RowToRecord" -> "newTest"
    [] at = "rowTest" -> "newTest"
    [] at = "newTest" -> "attributes"

FirstUseTest(c) ==
  /\ inflight[c].at \in {"test", "rowTest", "newTest"}
  /\ inflight' = [inflight EXCEPT ![c] =
                    IF ~table.finalized
                    THEN [inflight[c] EXCEPT
                            !.at = "enter",
                            !.back = AfterTest(inflight[c].op, inflight[c].at)]
                    ELSE [inflight[c] EXCEPT
                            !.at = AfterTest(inflight[c].op, inflight[c].at)]]
  /\ UNCHANGED <<table, records, made, last>>

FinalizeEnter(c) ==
  /\ inflight[c].at = "enter"
  /\ IF table.finalized
     THEN /\ table' = [table EXCEPT !.finalizePanic = TRUE]
          /\ inflight' = [inflight EXCEPT ![c].at = "panic"]
     ELSE /\ inflight' = [inflight EXCEPT ![c].at = "flag"]
          /\ UNCHANGED table
  /\ UNCHANGED <<records, made, last>>

FinalizeFlag(c) ==
  /\ inflight[c].at = "flag"
  /\ table' = [table EXCEPT !.finalized = TRUE, !.finalizeCalls = @ + 1]
  /\ inflight' = [inflight EXCEPT ![c].at = "qualified"]
  /\ UNCHANGED <<records, made, last>>

FinalizeTableNames(c) ==
  /\ inflight[c].at \in {"qualified", "quoted"}
  /\ IF inflight[c].at = "qualified"
     THEN /\ table' = [table EXCEPT !.quotedQualifiedName = Sanitize(table.Name)]
          /\ inflight' = [inflight EXCEPT ![c].at = "quoted"]
     ELSE /\ table' = [table EXCEPT
                         !.quotedName = Sanitize(<<table.Name[Len(table.Name)]>>)]
          /\ inflight' = [inflight EXCEPT ![c].at = "range"]
  /\ UNCHANGED <<records, made, last>>

\* Where the loop over the slice w.cols stands once iteration i is over.
AfterColumn(w, i) ==
  IF i < Len(w.cols)
  THEN [w EXCEPT !.at = "column", !.i = i + 1]
  ELSE [w EXCEPT !.at = "pkWhereLen", !.i = 0, !.cols = <<>>, !.stale = FALSE]

\* c is an element of the slice the range took: c.quotedName is written to
\* a Column of t.Columns only while t.Columns is still that slice.
FinalizeColumn(c) ==
  /\ inflight[c].at \in {"range", "column"}
  /\ IF inflight[c].at = "range"
     THEN /\ inflight' = [inflight EXCEPT ![c] =
                            AfterColumn([@ EXCEPT !.cols = table.Columns], 0)]
          /\ UNCHANGED table
     ELSE \E i \in {inflight[c].i} :
            /\ table' = IF inflight[c].stale THEN table
                        ELSE [table EXCEPT
                                !.Columns[i].quotedName =
                                   Sanitize(<<inflight[c].cols[i].Name>>)]
            /\ inflight' = [inflight EXCEPT ![c] =
                              IF inflight[c].cols[i].PrimaryKey
                              THEN [@ EXCEPT !.at = "read"]
                              ELSE AfterColumn(@, i)]
  /\ UNCHANGED <<records, made, last>>

\* The append is a read and a write of t.pkIndexes with nothing to keep
\* another caller's write from falling between them.
FinalizeAppend(c) ==
  /\ inflight[c].at \in {"read", "append"}
  /\ IF inflight[c].at = "read"
     THEN /\ inflight' = [inflight EXCEPT ![c].at = "append",
                                          ![c].read = table.pkIndexes]
          /\ UNCHANGED table
     ELSE /\ table' = [table EXCEPT
                         !.pkIndexes = Append(inflight[c].read, inflight[c].i)]
          /\ inflight' = [inflight EXCEPT ![c] =
                            AfterColumn([@ EXCEPT !.read = <<>>], inflight[c].i)]
  /\ UNCHANGED <<records, made, last>>

\* A caller whose builder is over: the text is stored and the locals die.
Stored(w, at) == [w EXCEPT !.at = at, !.text = NilText, !.i = 0, !.n = 0]

\* The loop of a builder after iteration i of n.
AfterTerm(w, text, loop, store) ==
  [w EXCEPT !.text = text, !.i = @ + 1,
            !.at = IF w.i < w.n THEN loop ELSE store]

\* The five assignments that end finalize.  A builder takes the length of
\* its range once and reads t.Columns and t.pkIndexes again at every
\* iteration: an index past the end of what they have become is a run-time
\* panic.  buildReturningClause and buildNameToColumnIndex take t.Columns
\* once.
FinalizeBuild(c) ==
  /\ inflight[c].at \in {"pkWhereLen", "pkWhereTerm", "pkWhereStore",
                          "selectLen", "selectTerm", "selectStore",
                          "selectByPKRead", "selectByPKStore",
                          "returningRead", "returningStore",
                          "indexRead", "indexStore"}
  /\ \E at \in {inflight[c].at}, i \in {inflight[c].i} :
       CASE at = "pkWhereLen" ->
              /\ inflight' = [inflight EXCEPT ![c] =
                                [@ EXCEPT !.n = Len(table.pkIndexes), !.i = 1,
                                          !.text = <<"where ">>,
                                          !.at = IF Len(table.pkIndexes) = 0
                                                 THEN "pkWhereStore"
                                                 ELSE "pkWhereTerm"]]
              /\ UNCHANGED table
         [] at = "pkWhereTerm" ->
              /\ inflight' = [inflight EXCEPT ![c] =
                                IF i > Len(table.pkIndexes)
                                THEN [@ EXCEPT !.at = "outOfRange"]
                                ELSE IF table.pkIndexes[i] > Len(table.Columns)
                                THEN [@ EXCEPT !.at = "outOfRange"]
                                ELSE AfterTerm(@, buildPKWhereClauseTerm(table, i, @.text),
                                               "pkWhereTerm", "pkWhereStore")]
              /\ UNCHANGED table
         [] at = "pkWhereStore" ->
              /\ table' = [table EXCEPT !.pkWhereClause = inflight[c].text]
              /\ inflight' = [inflight EXCEPT ![c] = Stored(@, "selectLen")]
         [] at = "selectLen" ->
              /\ inflight' = [inflight EXCEPT ![c] =
                                [@ EXCEPT !.n = Len(table.Columns), !.i = 1,
                                          !.text = <<"select ">>,
                                          !.at = IF Len(table.Columns) = 0
                                                 THEN "selectStore"
                                                 ELSE "selectTerm"]]
              /\ UNCHANGED table
         [] at = "selectTerm" ->
              /\ inflight' = [inflight EXCEPT ![c] =
                                IF i > Len(table.Columns)
                                THEN [@ EXCEPT !.at = "outOfRange"]
                                ELSE AfterTerm(@, buildSelectQueryTerm(table, i, @.text),
                                               "selectTerm", "selectStore")]
              /\ UNCHANGED table
         [] at = "selectStore" ->
              /\ table' = [table EXCEPT
                             !.selectQuery =
                                inflight[c].text
                                  \o <<" from ", table.quotedQualifiedName>>]
              /\ inflight' = [inflight EXCEPT ![c] = Stored(@, "selectByPKRead")]
         [] at = "selectByPKRead" ->
              /\ inflight' = [inflight EXCEPT
                                ![c].text = table.selectQuery \o <<" ">>
                                              \o table.pkWhereClause,
                                ![c].at = "selectByPKStore"]
              /\ UNCHANGED table
         [] at = "selectByPKStore" ->
              /\ table' = [table EXCEPT !.selectByPKQuery = inflight[c].text]
              /\ inflight' = [inflight EXCEPT ![c] = Stored(@, "returningRead")]
         [] at = "returningRead" ->
              /\ inflight' = [inflight EXCEPT
                                ![c].text = buildReturningClause(table),
                                ![c].at = "returningStore"]
              /\ UNCHANGED table
         [] at = "returningStore" ->
              /\ table' = [table EXCEPT !.returningClause = inflight[c].text]
              /\ inflight' = [inflight EXCEPT ![c] = Stored(@, "indexRead")]
         [] at = "indexRead" ->
              /\ inflight' = [inflight EXCEPT
                                ![c].map = buildNameToColumnIndex(table.Columns),
                                ![c].at = "indexStore"]
              /\ UNCHANGED table
         [] at = "indexStore" ->
              /\ table' = [table EXCEPT !.nameToColumnIndex = inflight[c].map]
              /\ inflight' = [inflight EXCEPT ![c].map = EmptyMap,
                                              ![c].at = inflight[c].back,
                                              ![c].back = ""]
  /\ UNCHANGED <<records, made, last>>

\* The Record a caller holds once its call returned r with error err.
Holds(c, r, err, by) ==
  /\ records' = IF err = "nil" THEN [records EXCEPT ![c] = r] ELSE records
  /\ made' = IF err = "nil"
             THEN [made EXCEPT ![c] = [by |-> by, saveCalled |-> FALSE]]
             ELSE made

\* What the method does once it is past its test.  SelectQuery returns
\* t.selectQuery.  FindByPK sends t.selectByPKQuery with the caller's key
\* and waits.  NewRecord makes attributes of len(t.Columns) and then
\* assigned of len(t.Columns), two reads.  From there on RowToRecord works
\* on a Record and a row no other caller has: the Scan (which fails when the
\* row has not one value per attribute), its error or the copy of the
\* attributes; CollectOneRow then reads the rest of the answer as it closes
\* the rows and FindByPK returns the Record or the error.
FirstUseRead(c) ==
  /\ inflight[c].at \in {"use", "attributes", "assigned"}
  /\ \E at \in {inflight[c].at}, op \in {inflight[c].op} :
       CASE at = "use" /\ op = "SelectQuery" ->
              /\ inflight' = [inflight EXCEPT ![c].at = "returned",
                                              ![c].text = table.selectQuery]
              /\ UNCHANGED <<records, made>>
         [] at = "use" /\ op = "FindByPK" ->
              /\ \E pk \in KeyTuples(Cardinality({k \in 1..Len(table.Columns) :
                                                    table.Columns[k].PrimaryKey})) :
                   inflight' = [inflight EXCEPT
                                  ![c].at = "answer",
                                  ![c].sent = <<[sql |-> table.selectByPKQuery,
                                                 args |-> pk]>>]
              /\ UNCHANGED <<records, made>>
         [] at = "attributes" ->
              /\ inflight' = [inflight EXCEPT ![c].at = "assigned",
                                              ![c].n = Len(table.Columns)]
              /\ UNCHANGED <<records, made>>
         [] at = "assigned" ->
              \E nr \in {[table |-> table,
                          record |-> [live |-> TRUE,
                                      originalAttributes |-> NilSlice,
                                      attributes |-> [k \in 1..inflight[c].n |-> 0],
                                      assigned |-> [k \in 1..Len(table.Columns) |-> FALSE]]]} :
                CASE op = "NewRecord" ->
                       /\ Holds(c, nr.record, "nil", "NewRecord")
                       /\ inflight' = [inflight EXCEPT ![c].at = "returned", ![c].n = 0]
                  [] op = "RowToRecord" ->
                       \E row \in [1..Len(table.Columns) -> Values],
                          e \in 0..Len(table.Columns) :
                         \E rr \in {IF Len(row) # inflight[c].n
                                    THEN rowToRecordInto(nr, row, 1)
                                    ELSE rowToRecordInto(nr, row, e)} :
                           /\ Holds(c, rr.record, rr.err, "RowToRecord")
                           /\ inflight' = [inflight EXCEPT
                                             ![c].at = "returned", ![c].n = 0,
                                             ![c].err = rr.err]
                  [] op = "FindByPK" ->
                       \E resp \in {a \in DriverResponses(Len(table.Columns)) :
                                      ~a.queryErr /\ a.nrows > 0} :
                         \E res \in {collectOneRowFirst(
                                       IF Len(resp.row) # inflight[c].n
                                       THEN rowToRecordInto(nr, resp.row, 1)
                                       ELSE rowToRecordInto(nr, resp.row, resp.scanErrAt),
                                       resp)} :
                           /\ Holds(c, res.record, res.err, "RowToRecord")
                           /\ inflight' = [inflight EXCEPT
                                             ![c].at = "returned", ![c].n = 0,
                                             ![c].err = res.err]
  /\ UNCHANGED <<table, last>>

\* The answer to the query of FindByPK reaches pgx.CollectOneRow, whose
\* rows.Next() reads it as far as the first row: an error of the query or
\* no row returns the error; a first row goes to t.RowToRecord, which tests
\* t.finalized again and reads the values of the row when it scans.
FindByPKAnswer(c) ==
  /\ inflight[c].op = "FindByPK"
  /\ inflight[c].at = "answer"
  /\ \E resp \in DriverResponses(Len(table.Columns)) :
       inflight' = [inflight EXCEPT ![c] =
                      IF resp.queryErr \/ resp.nrows = 0
                      THEN [inflight[c] EXCEPT
                              !.at = "returned",
                              !.err = CollectOneRow(table, resp).err]
                      ELSE [inflight[c] EXCEPT !.at = "rowTest"]]
  /\ UNCHANGED <<table, records, made, last>>

NextRace ==
  \/ \E c \in DOMAIN inflight : FirstUseTest(c)
  \/ \E c \in DOMAIN inflight : FinalizeEnter(c)
  \/ \E c \in DOMAIN inflight : FinalizeFlag(c)
  \/ \E c \in DOMAIN inflight : FinalizeTableNames(c)
  \/ \E c \in DOMAIN inflight : FinalizeColumn(c)
  \/ \E c \in DOMAIN inflight : FinalizeAppend(c)
  \/ \E c \in DOMAIN inflight : FinalizeBuild(c)
  \/ \E c \in DOMAIN inflight : FirstUseRead(c)
  \/ \E c \in DOMAIN inflight : FindByPKAnswer(c)

SpecRace == InitRace /\ [][NextRace]_vars

\* A caller that loads the columns from the catalog while another makes
\* Records, asks for the select query and sets and reads attributes.
\* LoadAllColumns gives way at its two queries, and the other caller between
\* any two of its reads and writes of the Table; Set and Get read the Table
\* once.
NextLoad ==
  \/ Return
  \/ \E c \in DOMAIN inflight : Returned(c)
  \/ \E c \in {"loader"} : LoadAllColumnsTest(c)
  \/ \E c \in {"loader"} : LoadAllColumnsOID(c)
  \/ \E c \in {"loader"} : LoadAllColumnsCollect(c)
  \/ \E c \in RecIds : FirstUseCall(c)
  \/ \E c \in RecIds : FirstUseTest(c)
  \/ \E c \in RecIds : FinalizeEnter(c)
  \/ \E c \in RecIds : FinalizeFlag(c)
  \/ \E c \in RecIds : FinalizeTableNames(c)
  \/ \E c \in RecIds : FinalizeColumn(c)
  \/ \E c \in RecIds : FinalizeAppend(c)
  \/ \E c \in RecIds : FinalizeBuild(c)
  \/ \E c \in RecIds : FirstUseRead(c)
  \/ \E id \in RecIds : inflight[id].at = "idle" /\ CallSet(id)
  \/ \E id \in RecIds : inflight[id].at = "idle" /\ CallGet(id)

SpecLoad == InitLoad /\ [][NextLoad]_vars

\* A caller that makes a Record, sets its attributes one by one and from
\* maps, and saves it.
NextRecord ==
  \/ Return
  \/ \E id \in RecIds : CallNewRecord(id)
  \/ \E id \in RecIds : CallRowToRecord(id)
  \/ \E id \in RecIds : CallSet(id)
  \/ \E id \in RecIds : CallSetAttributes(id)
  \/ \E id \in RecIds : CallSetAttributesStrict(id)
  \/ \E id \in RecIds : CallSave(id)

SpecRecord == Init /\ [][NextRecord]_vars

(***************************************************************************)
(* A caller that assigns Table.Columns after the Table was finalized, which *)
(* the package forbids but cannot prevent.                                 *)
(***************************************************************************)
ColumnLists == {s.Columns : s \in TableShapes}

CallChangeColumns ==
  /\ Idle
  /\ table.finalized
  /\ \E columns \in ColumnLists :
       /\ table' = [table EXCEPT !.Columns = columns]
       /\ last' = Call("ChangeColumns", "")
  /\ UNCHANGED <<records, made>>
  /\ UNCHANGED inflight

\* The number of columns of the rows that the cached RETURNING clause and
\* the cached select list ask for.
QueryColumns(t) == Len(t.returningClause) \div 2

\* rows.Scan with a number of destinations other than the number of fields
\* fails before it writes any destination.
scanCount(resp, n) ==
  IF resp.nrows > 0 /\ Len(resp.row) # n THEN [resp EXCEPT !.scanErrAt = 1] ELSE resp

CallFindByPKChanged(id) ==
  /\ Idle
  /\ ~records[id].live
  /\ \E pk \in KeyTuples(Len(ensureFinalized(table).pkIndexes)),
        resp \in DriverResponses(QueryColumns(ensureFinalized(table))) :
     \E res \in {FindByPK(table, pk, scanCount(resp, NumColumns))} :
         /\ table' = res.table
         /\ records' = IF res.err = "nil" THEN [records EXCEPT ![id] = res.record] ELSE records
         /\ made' = IF res.err = "nil"
                    THEN [made EXCEPT ![id] = [by |-> "RowToRecord", saveCalled |-> FALSE]]
                    ELSE made
         /\ last' = [Call("FindByPK", id) EXCEPT
                      !.err = res.err, !.sent = res.sent, !.resp = resp]
  /\ UNCHANGED inflight

\* The index expressions of insert and update that are out of range:
\* r.table.Columns[i] for an assigned i, r.attributes[pkIdx] in update.
savePanics(t, r) ==
  \/ \E i \in 1..Len(r.assigned) : r.assigned[i] /\ i > Len(t.Columns)
  \/ /\ ~r.originalAttributes.isNil
     /\ \E k \in 1..Len(t.pkIndexes) : t.pkIndexes[k] > Len(r.attributes)

\* The hooks of this caller set no attribute; the rows the driver answers
\* with have the columns of the cached RETURNING clause.
SaveInputsChanged(t) ==
  LET nzs == IF t.Normalize THEN {NormalizeRun(FALSE, "", 0, f) : f \in BOOLEAN}
                            ELSE {NoNormalize}
      vzs == IF t.Validate THEN ValidateRuns ELSE {"ok"}
  IN  {<<nz, "ok", NoResponse>> : nz \in {n \in nzs : n.fail}}
        \cup {<<nz, vz, NoResponse>> : nz \in {n \in nzs : ~n.fail}, vz \in vzs \ {"ok"}}
        \cup {<<nz, "ok", resp>> : nz \in {n \in nzs : ~n.fail},
                                   resp \in DriverResponses(QueryColumns(t))}

CallSaveChanged(id) ==
  /\ Idle
  /\ records[id].live
  /\ \E in \in SaveInputsChanged(table) :
       IF in[3] # NoResponse /\ savePanics(table, records[id])
       THEN /\ table' = [table EXCEPT !.validationErrors = "nil"]
            /\ last' = [Call("Save", id) EXCEPT !.panic = TRUE]
            /\ UNCHANGED <<records, made>>
       ELSE \E res \in {Save(table, records[id], in[1], in[2],
                              scanCount(in[3], Len(records[id].attributes)))} :
              /\ table' = res.table
              /\ records' = [records EXCEPT ![id] = res.record]
              /\ made' = [made EXCEPT ![id].saveCalled = TRUE]
              /\ last' = [Call("Save", id) EXCEPT
                            !.err = res.err, !.events = res.events, !.sent = res.sent,
                            !.resp = in[3], !.built = res.built,
                            !.hadSnapshot = ~records[id].originalAttributes.isNil]
  /\ UNCHANGED inflight

NextColumns ==
  \/ Return
  \/ CallChangeColumns
  \/ \E id \in RecIds : CallNewRecord(id)
  \/ CallSelectQuery
  \/ \E id \in RecIds : CallFindByPKChanged(id)
  \/ \E id \in RecIds : CallSaveChanged(id)

SpecColumns == Init /\ [][NextColumns]_vars

TypeOK ==
  /\ table.finalized \in BOOLEAN
  /\ \A id \in RecIds :
       records[id].live =>
         /\ Len(records[id].attributes) = NumColumns
         /\ Len(records[id].assigned) = NumColumns

(***************************************************************************)
(* Reading a statement: the pieces of its text by what they are            *)
(***************************************************************************)
\* The positions of sql at which P holds, ascending.
Positions(sql, P(_)) == SelectSeq([i \in 1..Len(sql) |-> i], P)

PositionsOf(sql, piece) == Positions(sql, LAMBDA i : sql[i] = piece)

\* The number a piece written by FormatInt stands for.
ParseInt(piece) == CHOOSE n \in 0..99 : FormatInt(n) = piece

\* The Record a call was made on.
TheRecord == records[last.rec]

SaveSent == last.op = "Save" /\ last.sent # <<>>

SentSQL == last.sent[1].sql
SentArgs == last.sent[1].args

\* The quoted names of the assigned columns of r, in column order.
AssignedColumns(t, r) ==
  LET idx == Positions(r.assigned, LAMBDA i : r.assigned[i])
  IN  [k \in 1..Len(idx) |-> t.Columns[idx[k]].quotedName]

\* The column list of an insert statement: what stands between " (" and
\* ") values (", without the separators.
InsertColumnList(sql) ==
  LET from == PositionsOf(sql, " (")[1]
      to == PositionsOf(sql, ") values (")[1]
  IN  SelectSeq(SubSeq(sql, from + 1, to - 1), LAMBDA piece : piece # ", ")

\* Where the WHERE clause of an update statement starts (past the end if the
\* statement has none).
WherePosition(sql) ==
  LET w == Positions(sql, LAMBDA i : sql[i] \in {"where ", " where "})
  IN  IF w = <<>> THEN Len(sql) + 1 ELSE w[1]

\* The "column = $n" pairs of an update statement, in text order.
Bindings(sql) ==
  LET at == PositionsOf(sql, " = $")
  IN  [k \in 1..Len(at) |->
         [column |-> sql[at[k] - 1], n |-> ParseInt(sql[at[k] + 1]),
          inWhere |-> at[k] > WherePosition(sql)]]

SetBindings(sql) == SelectSeq(Bindings(sql), LAMBDA bd : ~bd.inWhere)
WhereBindings(sql) == SelectSeq(Bindings(sql), LAMBDA bd : bd.inWhere)

UpdateSetList(sql) == [k \in 1..Len(SetBindings(sql)) |-> SetBindings(sql)[k].column]

AllFalse(assigned) == \A i \in 1..Len(assigned) : ~assigned[i]

(***************************************************************************)
(* Properties                                                              *)
(***************************************************************************)
\* The numbers of the placeholders of a statement, in text order.
PlaceholderNumbers(sql) ==
  LET at == Positions(sql, LAMBDA i : sql[i] \in {"$", " = $"})
  IN  [k \in 1..Len(at) |-> ParseInt(sql[at[k] + 1])]

\* Every number of 1..n is the number of exactly one placeholder.
NumbersOnce(nums, n) ==
  /\ Len(nums) = n
  /\ {nums[k] : k \in 1..Len(nums)} = 1..n

BindingNumbers(bds) == [k \in 1..Len(bds) |-> bds[k].n]

FromTo(a, b) == [k \in 1..(b - a + 1) |-> a + k - 1]

\* The column of Table t whose quoted name is q, and the key a caller's map
\* has for the quoted name q.
ColumnIndex(t, q) == CHOOSE i \in 1..Len(t.Columns) : t.Columns[i].quotedName = q
KeyOf(q) == CHOOSE k \in KeyNames : sanitizeIdentifier(k) = q

\* The k-th placeholder of an insert statement stands in row RowOf and under
\* column ColumnOf of the column list.
RowOf(sql, k) == ((k - 1) \div Len(InsertColumnList(sql))) + 1
ColumnOf(sql, k) == InsertColumnList(sql)[((k - 1) % Len(InsertColumnList(sql))) + 1]

\* In the sequence ev of steps every a comes before every b.
Before(ev, a, b) == \A i, j \in DOMAIN ev : (ev[i] = a /\ ev[j] = b) => i < j

Steps(ev) == {ev[i] : i \in DOMAIN ev}

\* What finalize derives from Name and Columns.
Derived(t) ==
  <<t.quotedQualifiedName, t.quotedName, t.pkIndexes, t.pkWhereClause, t.selectQuery,
    t.selectByPKQuery, t.returningClause, t.nameToColumnIndex,
    [i \in 1..Len(t.Columns) |-> t.Columns[i].quotedName]>>

TableCalls == {"NewRecord", "SelectQuery", "FindByPK", "RowToRecord"}

\* The Table as finalize leaves it when it runs on the Columns the Table was
\* made with.
Original(t) == finalize(NewTable(CHOOSE sh \in TableShapes : sh.Name = t.Name))

\* The last n pieces of a text.
Suffix(b, n) == SubSeq(b, Len(b) - n + 1, Len(b))

\* C1: after Set(name, v) on a column name, Get(name) returns v and the
\* column's assigned flag is true; after a Save that returns nil every
\* assigned flag is false.
C1_SetThenGet ==
  /\ (last.op = "Set" /\ ~last.panic) =>
       /\ Get(table, TheRecord, last.attribute) = [panic |-> FALSE, value |-> last.value]
       /\ TheRecord.assigned[table.nameToColumnIndex[last.attribute]]
  /\ (last.op = "Save" /\ last.err = "nil") => AllFalse(TheRecord.assigned)

\* A Set of a value that is not nil on a Record whose earlier Save succeeded.
C1_Witness ==
  /\ last.op = "Set" /\ ~last.panic /\ last.value # 0
  /\ made[last.rec].by = "NewRecord"
  /\ ~TheRecord.originalAttributes.isNil

\* C2: a Save that builds a statement builds an INSERT exactly when the
\* Record had no snapshot and an UPDATE exactly when it had one; the first
\* Save of a Record from NewRecord is an INSERT, a Save of a Record from
\* RowToRecord or FindByPK is an UPDATE whatever the values scanned.
C2_InsertOrUpdate ==
  SaveSent =>
    /\ (SentSQL[1] = "insert into ") <=> ~last.hadSnapshot
    /\ (SentSQL[1] = "update ") <=> last.hadSnapshot
    /\ (last.madeBy = "NewRecord" /\ last.firstSave) => SentSQL[1] = "insert into "
    /\ (last.madeBy = "RowToRecord") => SentSQL[1] = "update "

\* An UPDATE for a Record loaded from a row of nils.
C2_Witness ==
  /\ SaveSent /\ last.madeBy = "RowToRecord" /\ last.firstSave
  /\ last.err = "ErrNoRows"
  /\ \A i \in 1..NumColumns : TheRecord.originalAttributes.elems[i] = 0
  /\ SentSQL[1] = "update "

\* C3: the column list of the INSERT and the SET list of the UPDATE that a
\* Save builds are the assigned columns, each once, in column order, primary
\* keys included.
C3_AssignedColumnsOnly ==
  SaveSent =>
    IF last.hadSnapshot
    THEN UpdateSetList(SentSQL) = AssignedColumns(table, last.built)
    ELSE InsertColumnList(SentSQL) = AssignedColumns(table, last.built)

\* An UPDATE that sets a primary-key column and leaves another column out.
C3_Witness ==
  /\ SaveSent /\ last.hadSnapshot
  /\ \E i, j \in 1..NumColumns :
       /\ table.Columns[i].PrimaryKey /\ last.built.assigned[i]
       /\ ~last.built.assigned[j]

\* C4: in the statements of Record.insert, Record.update, insertRowSQL,
\* insertSQL and updateSQL the placeholders are $1..$len(args), each once, and
\* args[N-1] is the value of the column $N is attached to; Record.update
\* numbers the primary keys $1..$k in WHERE and SET from $k+1; updateSQL
\* numbers SET $1..$s and WHERE $s+1..$s+w.
C4_PlaceholdersMatchArgs ==
  /\ (last.op \in {"Save", "InsertRow", "Insert", "UpdateRow"} /\ last.sent # <<>>) =>
       NumbersOnce(PlaceholderNumbers(SentSQL), Len(SentArgs))
  /\ (SaveSent /\ ~last.hadSnapshot) =>
       \A k \in 1..Len(PlaceholderNumbers(SentSQL)) :
         SentArgs[PlaceholderNumbers(SentSQL)[k]]
           = last.built.attributes[ColumnIndex(table, ColumnOf(SentSQL, k))]
  /\ (SaveSent /\ last.hadSnapshot) =>
       /\ \A k \in 1..Len(Bindings(SentSQL)) :
            SentArgs[Bindings(SentSQL)[k].n]
              = last.built.attributes[ColumnIndex(table, Bindings(SentSQL)[k].column)]
       /\ BindingNumbers(WhereBindings(SentSQL)) = FromTo(1, Len(table.pkIndexes))
       /\ \A k \in 1..Len(table.pkIndexes) :
            /\ WhereBindings(SentSQL)[k].column = table.Columns[table.pkIndexes[k]].quotedName
            /\ SentArgs[k] = last.built.attributes[table.pkIndexes[k]]
       /\ BindingNumbers(SetBindings(SentSQL))
            = FromTo(Len(table.pkIndexes) + 1, Len(SentArgs))
  /\ (last.op = "InsertRow") =>
       \A k \in 1..Len(PlaceholderNumbers(SentSQL)) :
         SentArgs[PlaceholderNumbers(SentSQL)[k]]
           = last.input.values[KeyOf(ColumnOf(SentSQL, k))]
  /\ (last.op = "Insert" /\ last.sent # <<>>) =>
       \A k \in 1..Len(PlaceholderNumbers(SentSQL)) :
         SentArgs[PlaceholderNumbers(SentSQL)[k]]
           = MapGet(last.input.rows[RowOf(SentSQL, k)], KeyOf(ColumnOf(SentSQL, k)))
  /\ (last.op = "UpdateRow") =>
       /\ \A k \in 1..Len(SetBindings(SentSQL)) :
            SentArgs[SetBindings(SentSQL)[k].n]
              = last.input.setValues[KeyOf(SetBindings(SentSQL)[k].column)]
       /\ \A k \in 1..Len(WhereBindings(SentSQL)) :
            SentArgs[WhereBindings(SentSQL)[k].n]
              = last.input.whereValues[KeyOf(WhereBindings(SentSQL)[k].column)]
       /\ BindingNumbers(SetBindings(SentSQL))
            = FromTo(1, Cardinality(DOMAIN last.input.setValues))
       /\ BindingNumbers(WhereBindings(SentSQL))
            = FromTo(Cardinality(DOMAIN last.input.setValues) + 1, Len(SentArgs))

\* An UPDATE on a Table with two primary-key columns, the Record holding two
\* different key values and at least one column being set.
C4_Witness ==
  /\ SaveSent /\ last.hadSnapshot
  /\ Len(table.pkIndexes) = 2
  /\ Len(SentArgs) >= 3
  /\ SentArgs[1] # SentArgs[2]
  /\ SetBindings(SentSQL) # <<>>

\* C5: a Save whose statement returns zero rows returns pgx.ErrNoRows, one
\* whose statement returns more than one row returns errTooManyRows, and one
\* whose statement returns exactly one row with no driver error returns nil.
C5_SaveRowCount ==
  (SaveSent /\ ~last.resp.queryErr) =>
    /\ last.resp.nrows = 0 => last.err = "ErrNoRows"
    /\ (last.resp.nrows > 1 /\ last.resp.scanErrAt = 0) => last.err = "errTooManyRows"
    /\ (last.resp.nrows = 1 /\ last.resp.scanErrAt = 0 /\ ~last.resp.iterErr) =>
         last.err = "nil"

\* An UPDATE that matched more than one row.
C5_Witness ==
  /\ SaveSent /\ last.hadSnapshot
  /\ last.resp.nrows > 1
  /\ last.err = "errTooManyRows"

\* C6: FindByPK returns a no-rows error when the query yields no row, a
\* too-many-rows error when it yields more than one, and a Record with no
\* error only when it yields exactly one.
C6_FindByPKRowCount ==
  (last.op = "FindByPK" /\ ~last.resp.queryErr /\ ~last.resp.iterErr
     /\ last.resp.scanErrAt = 0) =>
    /\ last.resp.nrows = 0 => last.err = "ErrNoRows"
    /\ last.resp.nrows > 1 => last.err = "errTooManyRows"
    /\ last.err = "nil" => last.resp.nrows = 1

\* C7: a Save that returns an error of the query step leaves the Record's
\* attributes, assigned flags and snapshot as they were when the statement
\* was built (the hooks having run).
C7_FailedSaveLeavesRecord ==
  (SaveSent /\ last.err # "nil") => TheRecord = last.built

\* C8: a Save on the UPDATE path sends no statement whose SET list is empty.
C8_NoEmptyUpdate ==
  (SaveSent /\ last.hadSnapshot) => UpdateSetList(SentSQL) # <<>>

\* C9: after a Save that returns nil every attribute holds the value of its
\* column in the one row returned, the snapshot is present and equal to the
\* attributes, and no column is assigned.
C9_SaveReconciles ==
  (last.op = "Save" /\ last.err = "nil") =>
    /\ last.resp.nrows = 1
    /\ TheRecord.attributes = last.resp.row
    /\ ~TheRecord.originalAttributes.isNil
    /\ TheRecord.originalAttributes.elems = TheRecord.attributes
    /\ AllFalse(TheRecord.assigned)

\* A successful UPDATE whose row changed an attribute that was not assigned
\* and differs from the snapshot the Record had.
C9_Witness ==
  /\ last.op = "Save" /\ last.err = "nil" /\ last.hadSnapshot
  /\ \E i \in 1..NumColumns :
       /\ ~last.built.assigned[i]
       /\ last.built.attributes[i] # TheRecord.attributes[i]
       /\ last.built.originalAttributes.elems[i] # TheRecord.originalAttributes.elems[i]

\* C10: in a save Normalize runs before Validate and both before the
\* statement is built or sent; a save whose Normalize or Validate fails
\* returns that failure and sends nothing.
C10_HooksBeforeStatement ==
  last.op \in {"Save", "Insert(record)", "Update(record)"} =>
    /\ Before(last.events, "Normalize", "Validate")
    /\ \A h \in {"Normalize", "Validate"} :
         \A st \in {"insert", "update", "buildQuery", "Query", "Exec"} :
           Before(last.events, h, st)
    /\ last.hooks.normalize # "none" => "Normalize" \in Steps(last.events)
    /\ last.hooks.validate # "none" /\ last.hooks.normalize # "normalize" =>
         "Validate" \in Steps(last.events)
    /\ last.sent # <<>> =>
         /\ last.hooks.normalize # "none" => "Normalize" \in Steps(last.events)
         /\ last.hooks.validate # "none" => "Validate" \in Steps(last.events)
    /\ last.hooks.normalize = "normalize" =>
         /\ last.err = "normalize"
         /\ last.sent = <<>>
         /\ Steps(last.events) \cap {"insert", "update", "buildQuery", "Query", "Exec"} = {}
    /\ (last.hooks.normalize # "normalize" /\ last.hooks.validate \notin {"none", "ok"}) =>
         /\ last.err = last.hooks.validate
         /\ last.sent = <<>>
         /\ Steps(last.events) \cap {"insert", "update", "buildQuery", "Query", "Exec"} = {}

\* A Save whose Normalize ran and whose Validate then failed.
C10_Witness ==
  /\ last.op = "Save"
  /\ last.events = <<"Normalize", "Validate">>
  /\ last.err = "ValidationErrors"
  /\ last.sent = <<>>

\* C11: over any series of NewRecord, SelectQuery, FindByPK and RowToRecord
\* on one Table finalize runs once, on the first of them; finalized never
\* returns to false; what finalize derived stays as it is; finalize never
\* panics.
C11_FinalizeOnce ==
  [][/\ table.finalized => table'.finalized
     /\ table.finalized => Derived(table') = Derived(table)
     /\ last'.op \in TableCalls => (table'.finalized /\ table'.finalizeCalls = 1)
     /\ table'.finalizeCalls = (IF table'.finalized THEN 1 ELSE 0)
     /\ ~table'.finalizePanic]_vars

\* A SelectQuery on a Table that an earlier NewRecord or RowToRecord finalized.
C11_Witness ==
  /\ last.op = "SelectQuery"
  /\ records["r1"].live
  /\ table.finalizeCalls = 1
  /\ last.text = table.selectQuery

\* C12: a LoadAllColumns that is called on a finalized Table (its test of
\* t.finalized finds the flag set) returns an error at once, sends no query
\* and changes neither Columns nor what finalize derived.  A call that
\* passed the test before the Table was finalized is not such a call.
C12_LoadAfterFinalize ==
  [][\A c \in DOMAIN inflight :
       (/\ table.finalized
        /\ inflight[c].at = "idle"
        /\ inflight'[c].op = "LoadAllColumns") =>
         /\ inflight'[c].at = "returned"
         /\ inflight'[c].err = "finalized"
         /\ inflight'[c].sent = <<>>
         /\ table' = table]_vars

\* A LoadAllColumns refused on a Table that NewRecord finalized after an
\* earlier LoadAllColumns gave it the columns of another table.
C12_Witness ==
  /\ inflight["loader"].op = "LoadAllColumns"
  /\ inflight["loader"].at = "returned"
  /\ inflight["loader"].err = "finalized"
  /\ table.finalized /\ records["r1"].live
  /\ table.Name = <<"kv">> /\ Len(table.Columns) = 2

\* C13: once the Table is finalized no call writes a field of it.
C13_FinalizedTableUnchanged ==
  [][table.finalized => table' = table]_vars

\* C14: whatever is assigned to Columns after the Table was finalized,
\* SelectQuery returns the text built at finalize, FindByPK sends the
\* select-by-PK query built at finalize, and the statements of Save end with
\* the PK WHERE clause (UPDATE) and the RETURNING clause built at finalize.
C14_CachedText ==
  /\ last.op = "SelectQuery" => last.text = Original(table).selectQuery
  /\ last.op = "FindByPK" => SentSQL = Original(table).selectByPKQuery
  /\ (SaveSent /\ last.hadSnapshot) =>
       SubSeq(SentSQL, WherePosition(SentSQL), Len(SentSQL))
         = Original(table).pkWhereClause \o <<" ">> \o Original(table).returningClause
  /\ (SaveSent /\ ~last.hadSnapshot) =>
       Suffix(SentSQL, Len(Original(table).returningClause))
         = Original(table).returningClause

\* A SelectQuery after the Columns of a finalized Table were replaced by a
\* list of another length and other names.
C14_Witness ==
  /\ last.op = "SelectQuery"
  /\ table.finalized
  /\ Len(table.Columns) # QueryColumns(table)
  /\ table.Columns[1].quotedName = ""

\* C15: the PK WHERE clause built at finalize names the columns flagged
\* PrimaryKey and no other, in the order of Columns, the j-th of them with
\* placeholder $j; pkIndexes is strictly increasing and holds the index of
\* each primary-key column once.
C15_PKWhereClause ==
  table.finalized =>
    /\ \A j, k \in 1..Len(table.pkIndexes) : j < k => table.pkIndexes[j] < table.pkIndexes[k]
    /\ {table.pkIndexes[k] : k \in 1..Len(table.pkIndexes)}
         = {i \in 1..NumColumns : table.Columns[i].PrimaryKey}
    /\ table.pkWhereClause[1] = "where "
    /\ Bindings(table.pkWhereClause)
         = [j \in 1..Len(table.pkIndexes) |->
              [column |-> Sanitize(<<table.Columns[table.pkIndexes[j]].Name>>),
               n |-> j, inWhere |-> TRUE]]
    /\ Len(table.pkWhereClause)
         = 1 + 3 * Len(table.pkIndexes)
             + (IF Len(table.pkIndexes) > 1 THEN Len(table.pkIndexes) - 1 ELSE 0)

\* A FindByPK on a Table whose only primary key is its second column.
C15_Witness ==
  /\ last.op = "FindByPK"
  /\ table.finalized
  /\ table.pkIndexes = <<2>>

\* C16: the UPDATE of a Save binds the PK predicate to the values the
\* primary-key attributes hold at the call, not to the snapshot: a primary
\* key that was Set carries its new value both in WHERE and in SET.
C16_WhereUsesCurrentPK ==
  (SaveSent /\ last.hadSnapshot) =>
    /\ Len(WhereBindings(SentSQL)) = Len(table.pkIndexes)
    /\ \A k \in 1..Len(table.pkIndexes) :
         /\ WhereBindings(SentSQL)[k].column = table.Columns[table.pkIndexes[k]].quotedName
         /\ SentArgs[WhereBindings(SentSQL)[k].n] = last.built.attributes[table.pkIndexes[k]]
         /\ last.built.assigned[table.pkIndexes[k]] =>
              \E s \in 1..Len(SetBindings(SentSQL)) :
                /\ SetBindings(SentSQL)[s].column = table.Columns[table.pkIndexes[k]].quotedName
                /\ SentArgs[SetBindings(SentSQL)[s].n] = last.built.attributes[table.pkIndexes[k]]

\* An UPDATE of a loaded Record whose primary key was Set to a value other
\* than the one in the snapshot.
C16_Witness ==
  /\ SaveSent /\ last.hadSnapshot /\ last.madeBy = "RowToRecord"
  /\ \E k \in 1..Len(table.pkIndexes) :
       /\ last.built.assigned[table.pkIndexes[k]]
       /\ last.built.attributes[table.pkIndexes[k]]
            # last.built.originalAttributes.elems[table.pkIndexes[k]]
       /\ SentArgs[k] = last.built.attributes[table.pkIndexes[k]]

\* C17: a SetAttributesStrict whose map holds a key that is no column
\* returns an error and leaves every attribute and every assigned flag of
\* the Record as it was, whatever the order of the range over the map.
C17_StrictIsAtomic ==
  (last.op = "SetAttributesStrict"
     /\ \E k \in DOMAIN last.input.values : k \notin DOMAIN table.nameToColumnIndex) =>
    /\ last.err # "nil"
    /\ TheRecord = last.before

\* The names of the columns of the Table.
ColumnNames == {table.Columns[i].Name : i \in 1..NumColumns}

\* C18: a Set or a Get fails exactly when its name is no column of the
\* Table, and a failing call leaves attributes, assigned flags and snapshot
\* of every Record as they were.
C18_UnknownNameFails ==
  [][last'.op \in {"Set", "Get"} =>
       /\ last'.panic <=> last'.attribute \notin ColumnNames
       /\ last'.panic => records' = records]_vars

\* A Set of an unknown name on a Record that has an assigned column and a
\* snapshot.
C18_Witness ==
  /\ last.op = "Set" /\ last.panic /\ last.attribute = "x"
  /\ ~AllFalse(TheRecord.assigned)
  /\ ~TheRecord.originalAttributes.isNil

\* The keys of map m in ascending order of Go strings.
SortedKeys(m) ==
  CHOOSE o \in RangeOrders(m) : \A i \in 1..(Len(o) - 1) : StringLess(o[i], o[i + 1])

\* The sanitized keys of map m in ascending order of the keys.
SortedNames(m) == [k \in 1..Len(SortedKeys(m)) |-> sanitizeIdentifier(SortedKeys(m)[k])]

\* The values of map m under the keys, in order.
ValuesOf(m, keys) == [k \in 1..Len(keys) |-> MapGet(m, keys[k])]

\* The values of every row under the keys, row after row.
RECURSIVE ValuesOfRows(_, _)
ValuesOfRows(rows, keys) ==
  IF rows = <<>> THEN <<>>
  ELSE ValuesOf(Head(rows), keys) \o ValuesOfRows(Tail(rows), keys)

\* C19: the statement of insertRowSQL, insertSQL and updateSQL lists the
\* column names in ascending order of strings, its arguments follow the same
\* order, and statement and arguments are the same for every order in which
\* the range over the maps can yield the keys.
C19_SortedColumns ==
  /\ (last.op = "InsertRow" /\ last.sent # <<>>) =>
       /\ InsertColumnList(SentSQL) = SortedNames(last.input.values)
       /\ SentArgs = ValuesOf(last.input.values, SortedKeys(last.input.values))
       /\ \A order \in RangeOrders(last.input.values) :
            insertRowSQL(last.input.tableName, last.input.values, order, "") = last.sent[1]
  /\ (last.op = "Insert" /\ last.sent # <<>>) =>
       /\ InsertColumnList(SentSQL) = SortedNames(last.input.rows[1])
       /\ SentArgs = ValuesOfRows(last.input.rows, SortedKeys(last.input.rows[1]))
       /\ \A order \in RangeOrders(last.input.rows[1]) :
            insertSQL(last.input.tableName, last.input.rows, order, "") = last.sent[1]
  /\ (last.op = "UpdateRow" /\ last.sent # <<>>) =>
       /\ UpdateSetList(SentSQL) = SortedNames(last.input.setValues)
       /\ [k \in 1..Len(WhereBindings(SentSQL)) |-> WhereBindings(SentSQL)[k].column]
            = SortedNames(last.input.whereValues)
       /\ SentArgs = ValuesOf(last.input.setValues, SortedKeys(last.input.setValues))
                       \o ValuesOf(last.input.whereValues, SortedKeys(last.input.whereValues))
       /\ \A setOrder \in RangeOrders(last.input.setValues),
             whereOrder \in RangeOrders(last.input.whereValues) :
            updateSQL(last.input.tableName, last.input.setValues, setOrder,
                      last.input.whereValues, whereOrder, "") = last.sent[1]

\* An UpdateRow whose maps have two keys each, and values that differ.
C19_Witness ==
  /\ last.op = "UpdateRow" /\ last.sent # <<>>
  /\ Cardinality(DOMAIN last.input.setValues) = 2
  /\ Cardinality(DOMAIN last.input.whereValues) = 2
  /\ last.input.setValues["id"] # last.input.setValues["name"]
  /\ SentArgs[1] # SentArgs[2]

\* The characters an identifier may consist of to be written without quotes.
PlainChars ==
  {Alphabet[k] : k \in 1..Len(Alphabet)} \cup {Digits[k] : k \in 1..Len(Digits)} \cup {"_"}

Plain(s) == \A i \in 1..Len(Chars(s)) : Chars(s)[i] \in PlainChars

\* s between double quotes, with every double quote of s doubled.
Quoted(s) == "\"" \o ReplaceQuotes(Chars(s)) \o "\""

\* The table name and the one column name of a statement of InsertRow.
NamedTable == SentSQL[2]
NamedColumn == InsertColumnList(SentSQL)[1]
TheKey == CHOOSE k \in DOMAIN last.input.values : TRUE

\* C20 as stated: sanitizeIdentifier returns its input unchanged exactly when
\* every character of it is in [a-z0-9_] and the quoted form otherwise, and
\* an identifier with another character is quoted in the statements of the
\* free functions.
C20_UnquotedIffPlain ==
  /\ last.op \in {"sanitizeIdentifier", "sanitizeIdentifier_part003"} =>
       /\ last.text = last.attribute <=> Plain(last.attribute)
       /\ ~Plain(last.attribute) => last.text = Quoted(last.attribute)
  /\ (last.op \in {"InsertRow", "InsertRow_part003"} /\ last.sent # <<>>) =>
       /\ ~Plain(last.input.tableName[1]) => NamedTable = Quoted(last.input.tableName[1])
       /\ ~Plain(TheKey) => NamedColumn = Quoted(TheKey)

\* C20: the sanitizeIdentifier that ranges over the runes returns its input
\* unchanged exactly when every character of it is in [a-z0-9_] and the
\* quoted form otherwise; the sanitizeIdentifier of pgxrecord.go returns the
\* quoted form of every input; with either, an identifier with another
\* character is quoted in the statement of InsertRow.
C20_QuotedUnlessPlain ==
  /\ last.op = "sanitizeIdentifier_part003" =>
       /\ last.text = last.attribute <=> Plain(last.attribute)
       /\ ~Plain(last.attribute) => last.text = Quoted(last.attribute)
  /\ last.op = "sanitizeIdentifier" => last.text = Quoted(last.attribute)
  /\ (last.op = "InsertRow" /\ last.sent # <<>>) =>
       /\ NamedTable = Quoted(last.input.tableName[1])
       /\ NamedColumn = Quoted(TheKey)
  /\ (last.op = "InsertRow_part003" /\ last.sent # <<>>) =>
       /\ NamedTable = (IF Plain(last.input.tableName[1]) THEN last.input.tableName[1]
                         ELSE Quoted(last.input.tableName[1]))
       /\ NamedColumn = (IF Plain(TheKey) THEN TheKey ELSE Quoted(TheKey))

\* An identifier with a double quote through the variant that ranges over
\* the runes: it comes back quoted, with the quote doubled.
C20_Witness ==
  /\ last.op = "sanitizeIdentifier_part003"
  /\ last.attribute = "m\"q"
  /\ last.text = "\"m\"\"q\""

\* The statement of the call ran without an error of the driver: neither
\* Query nor the closed Rows reported one.
RanClean == ~last.resp.queryErr /\ ~last.resp.iterErr

\* C21: UpdateRow, through ExecRow, returns nil exactly when the statement
\* ran without an error of the driver and affected one row; no row affected
\* gives pgx.ErrNoRows, more than one gives errTooManyRows.
C21_ExecRowExactlyOne ==
  last.op = "UpdateRow" =>
    /\ last.err = "nil" <=> (RanClean /\ last.resp.nrows = 1)
    /\ (RanClean /\ last.resp.nrows = 0) => last.err = "ErrNoRows"
    /\ (RanClean /\ last.resp.nrows > 1) => last.err = "errTooManyRows"
    /\ ~RanClean => last.err = "driver"

\* An UpdateRow whose statement ran and affected two rows.
C21_Witness ==
  /\ last.op = "UpdateRow" /\ RanClean
  /\ last.resp.nrows = 2 /\ last.err = "errTooManyRows"

\* C22: SelectRow returns pgx.ErrNoRows when the query has no row, an error
\* when it has more than one, and the scanned value and nil when it has
\* one; Select returns one element per row, and nil as error also when
\* there is no row.
C22_SelectRowShapes ==
  /\ (last.op = "SelectRow" /\ RanClean) =>
       /\ last.resp.nrows = 0 => last.err = "ErrNoRows"
       /\ last.resp.nrows > 1 => last.err # "nil"
       /\ (last.resp.nrows = 1 /\ last.resp.scanErrAt = 0) =>
            (last.err = "nil" /\ last.ret = last.resp.row[1])
  /\ (last.op = "Select" /\ RanClean /\ last.resp.scanErrAt = 0) =>
       /\ last.err = "nil"
       /\ ~last.ret.isNil
       /\ last.ret.elems = last.resp.row

\* A SelectRow whose query has two rows that scan.
C22_Witness ==
  /\ last.op = "SelectRow" /\ RanClean
  /\ last.resp.nrows = 2 /\ last.resp.scanErrAt = 0
  /\ last.err = "errTooManyRows"

\* C23: after a SelectAll that returns nil the collection holds one element
\* per row of the query, in the order of the rows, and none when the query
\* has no row.
C23_OneElementPerRow ==
  (last.op = "SelectAll" /\ last.err = "nil") =>
    /\ Len(last.events) = last.resp.nrows
    /\ last.events = last.resp.row

\* The statement of a call of the interface-based API ran without an error
\* and, where the call looks at it, with the command tag the call expects.
TagClean ==
  /\ last.resp.queryErr = "nil" /\ last.resp.iterErr = "nil"
  /\ last.op = "Update(record)" => (last.sent # <<>> /\ last.resp.tag = "UPDATE")
  /\ last.op = "Delete" => last.resp.tag = "DELETE"
  /\ last.op = "SelectOne" => last.resp.scanErrAt # 1

\* C24: Update, Delete and SelectOne return nil only when one row is
\* affected or returned; no row gives the not-found error, n > 1 rows give
\* the error "expected 1 row got n"; SelectOne scans the first row only.
C24_ExactlyOneRow ==
  /\ (last.op \in {"Update(record)", "Delete", "SelectOne"} /\ TagClean) =>
       /\ last.resp.nrows = 0 => last.err = "notFound"
       /\ last.resp.nrows > 1 => (last.err = "multipleRows" /\ last.ret = last.resp.nrows)
       /\ last.resp.nrows = 1 => last.err = "nil"
  /\ (last.op \in {"Update(record)", "Delete", "SelectOne"} /\ last.err = "nil") =>
       last.resp.nrows = 1
  /\ last.op = "SelectOne" =>
       \/ last.events = <<>>
       \/ last.resp.nrows > 0 /\ last.events = <<last.resp.row[1]>>

\* A SelectOne whose query has two rows: the first is scanned, and the
\* error counts two.
C24_Witness ==
  /\ last.op = "SelectOne" /\ TagClean
  /\ last.resp.nrows = 2 /\ last.err = "multipleRows" /\ last.ret = 2
  /\ last.events = <<last.resp.row[1]>>

\* The error of the driver that a call of the interface-based API met:
\* that of Exec or Query, else that of rows.Err() after rows that scanned.
DriverError ==
  IF last.resp.queryErr # "nil" THEN last.resp.queryErr
  ELSE IF last.resp.scanErrAt # 0 /\ (last.op = "SelectAll" \/ last.resp.scanErrAt = 1)
  THEN "nil"
  ELSE last.resp.iterErr

MapperCalls == {"Insert(record)", "Update(record)", "Delete", "SelectOne", "SelectAll"}

\* The call ran its statement.
StatementRan ==
  IF last.op \in {"Insert(record)", "Update(record)"} THEN last.sent # <<>>
  ELSE last.resp.queryErr # "unsent"

\* C25: an error of the driver met by Insert, Update, Delete, SelectOne or
\* SelectAll comes back as the result of MapPgError exactly when the record
\* implements PgErrorMapper and the error is a *pgconn.PgError, and comes
\* back unchanged in every other case.
C25_MapsOnlyPgError ==
  (last.op \in MapperCalls /\ StatementRan /\ DriverError # "nil") =>
    last.err = (IF last.record.PgErrorMapper /\ DriverError = "PgError"
                THEN "mapped" ELSE DriverError)

\* A SelectAll on records with MapPgError whose rows end with a PgError.
C25_Witness ==
  /\ last.op = "SelectAll" /\ last.record.PgErrorMapper
  /\ last.resp.queryErr = "nil" /\ last.resp.nrows > 0 /\ last.resp.iterErr = "PgError"
  /\ last.err = "mapped"

\* Where the column named k stands in Columns.
PositionOfName(k) == CHOOSE i \in 1..NumColumns : table.Columns[i].Name = k

\* C26: every Record has one attribute and one assigned flag per column of
\* its Table, its snapshot, when there is one, has one value per column, and
\* the value set under a column name stands at the position of that column.
C26_OneSlotPerColumn ==
  /\ \A id \in RecIds :
       records[id].live =>
         /\ Len(records[id].attributes) = NumColumns
         /\ Len(records[id].assigned) = NumColumns
         /\ ~records[id].originalAttributes.isNil =>
              Len(records[id].originalAttributes.elems) = NumColumns
  /\ last.op = "SetAttributes" =>
       \A k \in DOMAIN last.input.values \cap ColumnNames :
         /\ TheRecord.attributes[PositionOfName(k)] = last.input.values[k]
         /\ TheRecord.assigned[PositionOfName(k)]
  /\ (last.op = "Set" /\ ~last.panic) =>
       TheRecord.attributes[PositionOfName(last.attribute)] = last.value

\* A Record with a snapshot, after a SetAttributes of both columns of a
\* Table of two columns.
C26_Witness ==
  /\ last.op = "SetAttributes"
  /\ Cardinality(DOMAIN last.input.values \cap ColumnNames) = 2
  /\ ~TheRecord.originalAttributes.isNil
  /\ TheRecord.attributes[1] # TheRecord.attributes[2]

\* C27: a Set, SetAttributes, SetAttributesStrict or Save on a Record that
\* has a snapshot leaves it with one, and its Save builds an UPDATE; a Save
\* that fails on a Record without a snapshot leaves it without one.
C27_SnapshotStays ==
  [][\A id \in RecIds :
       (last'.op \in {"Set", "SetAttributes", "SetAttributesStrict", "Save"}
          /\ last'.rec = id) =>
         /\ ~records[id].originalAttributes.isNil =>
              /\ ~records'[id].originalAttributes.isNil
              /\ (last'.op = "Save" /\ last'.sent # <<>>) =>
                   last'.sent[1].sql[1] = "update "
         /\ (records[id].originalAttributes.isNil /\ last'.op = "Save"
               /\ last'.err # "nil") =>
              records'[id].originalAttributes.isNil]_vars

\* A Save that fails at the driver on a Record of NewRecord that has an
\* assigned column and no snapshot.
C27_Witness ==
  /\ last.op = "Save" /\ ~last.hadSnapshot /\ last.madeBy = "NewRecord"
  /\ last.sent # <<>> /\ last.err = "errTooManyRows"
  /\ TheRecord.originalAttributes.isNil

\* C28: once a Save of a Record returned, the Errors of that Record are
\* what Validate gave that Save (nil if it gave none), whatever the Saves of
\* the other Records of the Table do before, meanwhile and after.
C28_ErrorsOfOwnSave ==
  \A c \in DOMAIN inflight :
    (inflight[c].saves > 0 /\ inflight[c].at \in {"idle", "returned"}) =>
      Errors(table, records[c]) = inflight[c].own

\* C29: when two callers make their first use of a Table at the same time,
\* finalize runs at most once: its panic is not reached, and no index stands
\* twice in pkIndexes.
C29_FinalizeOnceWhenRacing ==
  /\ ~table.finalizePanic
  /\ table.finalizeCalls <= 1
  /\ \A i, j \in 1..Len(table.pkIndexes) :
       i # j => table.pkIndexes[i] # table.pkIndexes[j]

\* The number of value tuples of an insert statement.
ValueTuples(sql) == Len(Positions(sql, LAMBDA i : sql[i] \in {") values (", "), ("}))

\* C30: for n > 0 rows, insertSQL lists the sorted keys of the first row,
\* writes n value tuples whose placeholders are numbered 1..n*|keys| in
\* text order, and returns n*|keys| arguments, the one of row i and key j
\* being rows[i][keys[j]], nil where row i has no such key.
C30_InsertSQLShape ==
  (last.op = "Insert" /\ last.sent # <<>>) =>
    LET rows == last.input.rows
        keys == SortedKeys(rows[1])
        n == Len(rows)
    IN  /\ InsertColumnList(SentSQL) = SortedNames(rows[1])
        /\ ValueTuples(SentSQL) = n
        /\ PlaceholderNumbers(SentSQL) = FromTo(1, n * Len(keys))
        /\ Len(SentArgs) = n * Len(keys)
        /\ \A i \in 1..n, j \in 1..Len(keys) :
             SentArgs[(i - 1) * Len(keys) + j] = MapGet(rows[i], keys[j])

\* An Insert of two rows: the first has both keys, the second lacks one and
\* so gives nil for it.
C30_Witness ==
  /\ last.op = "Insert" /\ last.sent # <<>>
  /\ Len(last.input.rows) = 2
  /\ DOMAIN last.input.rows[1] = {"id", "name"}
  /\ DOMAIN last.input.rows[2] = {"id"}
  /\ last.input.rows[1]["name"] # 0
  /\ SentArgs[4] = 0
  /\ PlaceholderNumbers(SentSQL) = <<1, 2, 3, 4>>

====
